---- MODULE Spec2Model ----
(***************************************************************************)
(* Model of the crawling / geocoding backend: the rate limiter             *)
(* (services/rate_limiter.py), the crawling cache                          *)
(* (services/crawl_cache.py) and the crawl orchestrator and single-page    *)
(* executor (services/crawling.py).                                        *)
(*                                                                         *)
(* Time is counted in ticks of the wall clock read by time.time() and      *)
(* datetime.now().                                                         *)
(***************************************************************************)
EXTENDS Integers, Sequences, FiniteSets, TLC

VARIABLES
    now,                \* the wall clock (time.time(), datetime.now())
    last_request_time,  \* RateLimiter.last_request_time, None = absent
    locked,             \* RateLimiter._lock is held
    waiters,            \* FIFO of tasks suspended in RateLimiter._lock.acquire()
    rl_pc,              \* per task: position inside RateLimiter.acquire()
    wake_at,            \* per task: earliest time asyncio.sleep(sleep_time) returns
    calls,              \* per task: number of acquire() calls started
    completions,        \* times at which acquire() calls completed, in order
    cache,              \* CrawlingCache._cache: key -> (data, timestamp)
    url_to_keys,        \* CrawlingCache._url_to_keys: normalized url -> keys
    pc,                 \* position of the crawl_urls call in progress
    request,            \* the CrawlRequest of the call in progress
    to_crawl,           \* _crawl_recursive: the queue of frontier items
    crawled_urls,       \* _crawl_recursive: normalized URLs already visited
    next_url,           \* _crawl_simple: index of the next request URL
    results,            \* results of the call in progress
    cached_count,       \* cached_count of the call in progress
    attempted,          \* frontier item behind each entry of results
    served,             \* per entry of results: TRUE if it came from the cache
    posts,              \* URLs submitted upstream (POST /crawl) by this call
    acquires,           \* rate limiter acquisitions made by this call
    started_at,         \* time at which this call started
    prev,               \* summary of the previous completed call
    nreq,               \* number of crawl_urls calls so far
    ex_in,              \* single-page executor run: its inputs
    ex_out,             \* single-page executor run: its outcome
    completers,         \* the task behind each entry of completions
    op,                 \* the last operation called on a cache store
    last_set,           \* per crawl cache key: what set() last stored, and when
    geo_cache,          \* per GeocodingService: GeocodingCache._cache
    submissions,        \* POST /crawl submissions of the concurrent calls
    geo_limiter,        \* per GeocodingService: its RateLimiter.last_request_time
    geo_calls,          \* upstream geocoding calls: service and time
    mcp_service,        \* mcp tools: _geocoding_service, "none" = not created
    poll_attempt,       \* _wait_for_task_completion: polls made so far
    poll_seen,          \* _wait_for_task_completion: the task, polls per status, last answer
    poll_out,           \* _wait_for_task_completion: how the call ended
    key_in,             \* _get_key runs: the two requests compared
    key_out,            \* _get_key runs: their cache keys
    geo_pending,        \* per entry point: the city of its request awaiting acquire()
    geo_out,            \* per entry point: what its last geocode_city call returned
    norm_in,            \* _normalize_url runs: the two URL strings normalized
    norm_out,           \* _normalize_url runs: their successive normal forms
    val_in,             \* CrawlRequest(...): the field values given
    val_out             \* CrawlRequest(...): "accepted", or "rejected" by a ValidationError

\* last_request_time is None until the first acquire() completes.
None == -1

\* ------------------------------------------------------------------------
\* Bounds of the model
\* ------------------------------------------------------------------------
NumTasks == 2       \* concurrent tasks calling acquire()
MaxCalls == 2       \* acquire() calls per task
RLMaxTime == 7      \* last tick of the clock in the rate limiter runs
TimeWindow == 2     \* RateLimiter.time_window, in ticks

Tasks == 1..NumTasks

rlVars == <<locked, waiters, rl_pc, wake_at, calls, completions, completers>>
cacheVars == <<cache, url_to_keys>>
callVars == <<pc, request, to_crawl, crawled_urls, next_url, results, cached_count,
              attempted, served, posts, acquires, started_at, prev, nreq>>
exVars == <<ex_in, ex_out>>
storeVars == <<op, last_set, geo_cache>>
concVars == <<submissions>>
geoVars == <<geo_limiter, geo_calls, mcp_service, geo_pending, geo_out>>
pollVars == <<poll_attempt, poll_seen, poll_out>>
keyVars == <<key_in, key_out>>
normVars == <<norm_in, norm_out>>
validVars == <<val_in, val_out>>
sideVars == <<storeVars, concVars, geoVars, pollVars, keyVars, normVars, validVars>>
notLimiter == <<cacheVars, callVars, exVars, sideVars>>
vars == <<now, last_request_time, rlVars, cacheVars, callVars, exVars, sideVars>>

\* ------------------------------------------------------------------------
\* URLs
\*
\* A URL string is held in the components urlparse() splits it into:
\* scheme "://" netloc path ["?" query] ["#" fragment]; the path is kept as
\* its text without trailing slashes plus the number of trailing slashes.
\* A relative href has an empty scheme and netloc.
\* ------------------------------------------------------------------------
Url(scheme, netloc, path, tslash, query, fragment) ==
    [scheme |-> scheme, netloc |-> netloc, path |-> path, tslash |-> tslash,
     query |-> query, fragment |-> fragment]

\* str.lower() on the tokens URLs are built from.
Lower(tok) ==
    CASE tok = "HTTPS" -> "https"
      [] tok = "A.com" -> "a.com"
      [] tok = "/P" -> "/p"
      [] tok = "P" -> "p"
      [] tok = "K=v" -> "k=v"
      [] OTHER -> tok

\* url.count("/"): two in "://", one per path segment (every path token is
\* one segment), and the trailing ones.
CountSlashes(url) == 2 + (IF url.path = "" THEN 0 ELSE 1) + url.tslash

\* url.endswith("/")
EndsWithSlash(url) == url.tslash > 0 /\ url.query = "" /\ url.fragment = ""

\* CrawlingService._normalize_url: lower-case scheme and netloc, empty path
\* for "" and "/", otherwise path.rstrip("/"), no fragment.
\* (NormalizeUrlKeepFragment: the same without dropping the fragment.)
NormalizeUrlKeepFragment(url) ==
    [url EXCEPT !.scheme = Lower(url.scheme), !.netloc = Lower(url.netloc),
                !.tslash = 0]

NormalizeUrl(url) ==
    [url EXCEPT !.scheme = Lower(url.scheme), !.netloc = Lower(url.netloc),
                !.tslash = 0, !.fragment = ""]

\* CrawlingCache._normalize_url: lower-case the whole string, then strip the
\* trailing slashes when the string ends with one.
CacheNormalizeUrl(url) ==
    LET low == [url EXCEPT !.scheme = Lower(url.scheme), !.netloc = Lower(url.netloc),
                           !.path = Lower(url.path), !.query = Lower(url.query),
                           !.fragment = Lower(url.fragment)]
    IN IF EndsWithSlash(low) /\ CountSlashes(low) > 2
       THEN [low EXCEPT !.tslash = 0]
       ELSE low

\* The URL reported in a CrawlResult: url.rstrip("/") if url.endswith("/") and
\* url.count("/") == 3 else url (crawling.py lines 443-445, 596-598, 617-619).
ReportedUrl(url) ==
    IF EndsWithSlash(url) /\ CountSlashes(url) = 3
    THEN [url EXCEPT !.tslash = 0]
    ELSE url

\* urljoin(base, href) for an absolute href or a relative one with an
\* absolute path.
UrlJoin(base, href) ==
    IF href.netloc # ""
    THEN href
    ELSE [href EXCEPT !.scheme = base.scheme, !.netloc = base.netloc]

\* f"{parsed.scheme}://{parsed.netloc}" and the netloc urlparse() reads back
\* from it.
Domain(url) == [scheme |-> url.scheme, netloc |-> url.netloc]

\* The pages of the crawled sites.
RootA == Url("https", "a.com", "", 1, "", "")
PageP == Url("https", "a.com", "/p", 0, "", "")
PageQ == Url("https", "a.com", "/q", 0, "", "")
RootB == Url("https", "b.com", "", 1, "", "")
PageR == Url("https", "b.com", "/r", 0, "", "")

\* hrefs as the upstream service reports them.
Rel(path, tslash, fragment) == Url("", "", path, tslash, "", fragment)

\* ------------------------------------------------------------------------
\* CrawlRequest (models/crawling.py) and the options used for caching
\* ------------------------------------------------------------------------
DefaultScreenshotWidth == 1920
DefaultScreenshotHeight == 1080
DefaultScreenshotWaitFor == 2

\* The Field constraints of max_depth (ge=1, le=5) and max_pages (ge=1,
\* le=50), and validate_urls: at least one URL, at most ten.
DepthLimit == 5
PagesLimit == 50
UrlsLimit == 10

ValidFields(r) ==
    /\ r.max_depth >= 1 /\ r.max_depth <= DepthLimit
    /\ r.max_pages >= 1 /\ r.max_pages <= PagesLimit
    /\ Len(r.urls) >= 1 /\ Len(r.urls) <= UrlsLimit

\* CrawlRequest.validate_screenshot_options, the part on recursive crawling.
\* (ValidRequestNoExternalCaps: without the limits for external links.)
ValidRequestNoExternalCaps(r) ==
    /\ Len(r.urls) >= 1
    /\ r.follow_internal_links => r.scrape_internal_links
    /\ r.follow_external_links => r.scrape_external_links
    /\ (r.follow_internal_links \/ r.follow_external_links) => Len(r.urls) <= 3

ValidRequest(r) ==
    /\ Len(r.urls) >= 1
    /\ r.follow_internal_links => r.scrape_internal_links
    /\ r.follow_external_links => r.scrape_external_links
    /\ (r.follow_internal_links \/ r.follow_external_links) => Len(r.urls) <= 3
    /\ r.follow_external_links => (r.max_depth <= 3 /\ r.max_pages <= 20)

\* CrawlingService._request_to_options
RequestToOptions(r) ==
    LET base == [markdown_only |-> r.markdown_only,
                 scrape_internal_links |-> r.scrape_internal_links,
                 scrape_external_links |-> r.scrape_external_links,
                 capture_screenshots |-> r.capture_screenshots,
                 follow_internal_links |-> r.follow_internal_links,
                 follow_external_links |-> r.follow_external_links,
                 max_depth |-> r.max_depth,
                 max_pages |-> r.max_pages,
                 screenshot_width |-> None,
                 screenshot_height |-> None,
                 screenshot_wait_for |-> None]
    IN IF r.capture_screenshots
       THEN [base EXCEPT !.screenshot_width = r.screenshot_width,
                         !.screenshot_height = r.screenshot_height,
                         !.screenshot_wait_for = r.screenshot_wait_for]
       ELSE base

\* ------------------------------------------------------------------------
\* CrawlingCache (services/crawl_cache.py)
\* ------------------------------------------------------------------------
Ttl == 3            \* CrawlingCache.ttl, in ticks

\* (GetKeyIgnoringScreenshot: a key made of the four flags only.)
GetKeyIgnoringScreenshot(url, options) ==
    [url |-> CacheNormalizeUrl(url),
     markdown_only |-> options.markdown_only,
     scrape_internal_links |-> options.scrape_internal_links,
     scrape_external_links |-> options.scrape_external_links,
     capture_screenshots |-> options.capture_screenshots,
     screenshot_width |-> None, screenshot_height |-> None,
     screenshot_wait_for |-> None]

\* CrawlingCache._get_key: the hash of the normalized URL and of the options
\* that affect the result; the hash is taken to be free of collisions.
GetKey(url, options) ==
    [url |-> CacheNormalizeUrl(url),
     markdown_only |-> options.markdown_only,
     scrape_internal_links |-> options.scrape_internal_links,
     scrape_external_links |-> options.scrape_external_links,
     capture_screenshots |-> options.capture_screenshots,
     screenshot_width |->
        IF options.capture_screenshots THEN options.screenshot_width ELSE None,
     screenshot_height |->
        IF options.capture_screenshots THEN options.screenshot_height ELSE None,
     screenshot_wait_for |->
        IF options.capture_screenshots THEN options.screenshot_wait_for ELSE None]

\* "datetime.now() - timestamp > self.ttl"
ExpiredReversed(timestamp, t) == t - timestamp < Ttl

Expired(timestamp, t) == t - timestamp > Ttl

\* A dict without key k, and with key k bound to v.
Without(d, k) == [x \in DOMAIN d \ {k} |-> d[x]]
With(d, k, v) == [x \in DOMAIN d \cup {k} |-> IF x = k THEN v ELSE d[x]]

\* CrawlingCache.get at time t on the store c: found tells whether data was
\* returned, store is _cache afterwards (the expired entry is deleted).
CacheGet(c, url, options, t) ==
    LET key == GetKey(url, options) IN
    IF key \notin DOMAIN c
    THEN [found |-> FALSE, key |-> key, store |-> c]
    ELSE IF Expired(c[key].timestamp, t)
         THEN [found |-> FALSE, key |-> key, store |-> Without(c, key)]
         ELSE [found |-> TRUE, key |-> key, store |-> c]

\* (CacheSetKeepsAge: set() that leaves the timestamp of an entry it
\* overwrites.)
CacheSetKeepsAge(c, u2k, url, options, data, t) ==
    LET key == GetKey(url, options)
        normalized_url == CacheNormalizeUrl(url)
        keys == IF normalized_url \in DOMAIN u2k THEN u2k[normalized_url] ELSE {}
        timestamp == IF key \in DOMAIN c THEN c[key].timestamp ELSE t
    IN [store |-> With(c, key, [data |-> data, timestamp |-> timestamp]),
        index |-> With(u2k, normalized_url, keys \cup {key})]

\* CrawlingCache.set at time t: _cache and _url_to_keys afterwards.
CacheSet(c, u2k, url, options, data, t) ==
    LET key == GetKey(url, options)
        normalized_url == CacheNormalizeUrl(url)
        keys == IF normalized_url \in DOMAIN u2k THEN u2k[normalized_url] ELSE {}
    IN [store |-> With(c, key, [data |-> data, timestamp |-> t]),
        index |-> With(u2k, normalized_url, keys \cup {key})]

EmptyDict == [x \in {} |-> {}]

\* ------------------------------------------------------------------------
\* Single-page crawl executor (services/crawling.py)
\*
\* A string built by the code is a sequence of its parts; <<>> is the empty
\* string, and None where the field is optional (both are falsy).
\*
\* The upstream service's behaviour on one submission is a record up:
\*   post     "ok", or how client.post / raise_for_status / the reply fails
\*   msg      str() of the exception a failing post or poll raises
\*   pending  number of polls answered "pending" before the final answer
\*   final    the final answer of the task endpoint
\*   payload  the task result of a completed task
\* ------------------------------------------------------------------------
MaxPolls == 30
HttpOk == 200

NoSize == <<>>

CrawlResult(url, success, depth, markdown, internal_links, external_links, screenshot_base64, screenshot_size, error_message, status_code) ==
    [url |-> url, success |-> success, depth |-> depth, markdown |-> markdown,
     internal_links |-> internal_links, external_links |-> external_links,
     screenshot_base64 |-> screenshot_base64, screenshot_size |-> screenshot_size,
     error_message |-> error_message, status_code |-> status_code]

Failure(url, depth, error_message, status_code) ==
    CrawlResult(url, FALSE, depth, <<>>, <<>>, <<>>, FALSE, NoSize,
                error_message, status_code)

ValidateNothing(r) == TRUE

\* CrawlResult.validate_success_consistency: FALSE when the constructor raises.
ValidateSuccessConsistency(r) ==
    /\ r.success => r.markdown # <<>>
    /\ ~r.success => r.error_message # <<>>
    /\ r.screenshot_base64 => r.screenshot_size # NoSize

\* An outcome of a block of code: a value, or an exception with its str().
Returned(v) == [raised |-> FALSE, value |-> v, msg |-> <<>>]
Raised(msg) == [raised |-> TRUE, value |-> <<>>, msg |-> msg]

\* The status the task endpoint reports at poll number attempt (from 0).
StatusAt(up, attempt) == IF attempt < up.pending THEN "pending" ELSE up.final

\* CrawlingService._wait_for_task_completion, from poll number attempt on.
RECURSIVE PollFrom(_, _)
PollFrom(up, attempt) ==
    IF attempt >= MaxPolls
    THEN Raised(<<"Task ", "task-1", " timed out after ", "30", " seconds">>)
    ELSE LET status == StatusAt(up, attempt) IN
         CASE status = "exc" -> Raised(up.msg)
           [] status = "http_error" -> Raised(<<"HTTPStatusError">>)
           [] status = "completed" -> Returned(up.payload)
           [] status = "failed" -> Raised(<<"Crawl task failed: ">> \o up.msg)
           [] status \in {"pending", "running", "processing"} ->
                PollFrom(up, attempt + 1)
           [] OTHER -> Raised(<<"Unknown task status: ", status>>)

WaitForTaskCompletion(up) == PollFrom(up, 0)

EmptyHref == Url("", "", "", 0, "", "")
Hrefs(links) == SelectSeq(links, LAMBDA h : h # EmptyHref)

\* screenshot_size for a screenshot of the given kind (lines 585-593 and
\* _get_png_dimensions): the size in the PNG header, None when the header is
\* not a PNG header, the requested size when base64 decoding fails.
ScreenshotSize(kind, r) ==
    CASE kind = "png" -> <<r.screenshot_width, r.screenshot_height>>
      [] kind = "bad_base64" -> <<r.screenshot_width, r.screenshot_height>>
      [] OTHER -> NoSize

\* CrawlingService._parse_crawl_response
ParseCrawlResponse(url, crawl_data, r, depth) ==
    IF crawl_data.malformed
    THEN Failure(ReportedUrl(url), depth,
                 <<"Failed to parse response: ", "AttributeError">>, None)
    ELSE IF ~crawl_data.has_results
    THEN Failure(url, depth, <<"No results in task response">>, None)
    ELSE IF crawl_data.status_code # HttpOk
    THEN Failure(url, depth, <<"HTTP ", "status_code">>, crawl_data.status_code)
    ELSE LET shot == r.capture_screenshots /\ crawl_data.screenshot # "none"
             result == CrawlResult(
                ReportedUrl(url), TRUE, depth, crawl_data.markdown,
                IF r.scrape_internal_links THEN Hrefs(crawl_data.internal) ELSE <<>>,
                IF r.scrape_external_links THEN Hrefs(crawl_data.external) ELSE <<>>,
                shot,
                IF shot THEN ScreenshotSize(crawl_data.screenshot, r) ELSE NoSize,
                <<>>, crawl_data.status_code)
         IN IF ValidateSuccessConsistency(result)
            THEN result
            ELSE Failure(ReportedUrl(url), depth,
                         <<"Failed to parse response: ", "ValidationError">>, None)

\* The try block of _crawl_single_url after the rate limiter: lines 415-438.
Submit(url, r, depth, up) ==
    CASE up.post = "exc" -> Raised(up.msg)
      [] up.post = "http_error" -> Raised(<<"HTTPStatusError">>)
      [] up.post = "no_task_id" -> Raised(<<"'task_id'">>)
      [] OTHER ->
            LET crawl_data == WaitForTaskCompletion(up) IN
            IF crawl_data.raised
            THEN crawl_data
            ELSE Returned(ParseCrawlResponse(url, crawl_data.value, r, depth))

\* CrawlingService._crawl_single_url: the result it returns, or raised when
\* the CrawlResult built in the except block is itself rejected.
CrawlSingleUrl(url, r, depth, up) ==
    LET body == Submit(url, r, depth, up) IN
    IF ~body.raised
    THEN Returned(body.value)
    ELSE LET result == Failure(ReportedUrl(url), depth, body.msg, None) IN
         IF ValidateSuccessConsistency(result)
         THEN Returned(result)
         ELSE Raised(<<"ValidationError">>)

\* ------------------------------------------------------------------------
\* The crawled sites and the upstream service's answers in the crawl runs
\* ------------------------------------------------------------------------
NoLinks == [internal |-> <<>>, external |-> <<>>]

\* The links the upstream service reports for a page, relative and absolute,
\* with fragments, trailing slashes, another case of the host, a cycle back
\* to the root, a link to another host listed as internal and an external
\* page linking back.
Web(page) ==
    CASE page = NormalizeUrl(RootA) ->
            [internal |-> << Rel("/p", 0, ""), Rel("/p", 0, "x"),
                             Url("https", "a.com", "/p", 1, "", ""),
                             Url("https", "A.com", "/q", 0, "", ""),
                             RootB >>,
             external |-> << RootB, Url("https", "A.com", "/p", 0, "", "") >>]
      [] page = NormalizeUrl(PageP) ->
            [internal |-> << Rel("", 1, ""), Rel("/q", 0, "") >>,
             external |-> << PageR >>]
      [] page = NormalizeUrl(RootB) ->
            [internal |-> << Rel("/r", 0, "") >>,
             external |-> << PageQ >>]
      [] page = NormalizeUrl(PageR) ->
            [internal |-> <<>>, external |-> << RootA >>]
      [] OTHER -> NoLinks

Payload(markdown, links) ==
    [malformed |-> FALSE, has_results |-> TRUE, status_code |-> HttpOk,
     markdown |-> markdown, internal |-> links.internal,
     external |-> links.external, screenshot |-> "none"]

Upstream(post, msg, pending, final, payload) ==
    [post |-> post, msg |-> msg, pending |-> pending, final |-> final,
     payload |-> payload]

\* The task completes at the first poll with the page and its links.
OkUp(url) ==
    Upstream("ok", <<>>, 0, "completed",
             Payload(<<"# Page">>, Web(NormalizeUrl(url))))
\* The task fails with an error text.
FailUp == Upstream("ok", <<"upstream error">>, 0, "failed", Payload(<<>>, NoLinks))
\* client.post raises an exception whose str() is empty.
EmptyExcUp == Upstream("exc", <<>>, 0, "completed", Payload(<<>>, NoLinks))

CrawlUpstreams(url) == {OkUp(url), FailUp, EmptyExcUp}

\* Seconds a submission takes: one poll_interval per poll made.
PollInterval == 1
Duration(up) ==
    IF up.post # "ok" THEN 0
    ELSE PollInterval * (IF up.pending + 1 > MaxPolls THEN MaxPolls ELSE up.pending + 1)

\* ------------------------------------------------------------------------
\* Crawl orchestrator (services/crawling.py)
\* ------------------------------------------------------------------------
CrawlTimeWindow == 1    \* RateLimiter(max_requests=1, time_window=1.0)

FrontierItem(url_str, normalized_url, depth, base_domain) ==
    [url_str |-> url_str, normalized_url |-> normalized_url, depth |-> depth,
     base_domain |-> base_domain]

\* Lines 266-271: the seeds at depth 0.
SeedItems(urls) ==
    [i \in 1..Len(urls) |->
        FrontierItem(urls[i], NormalizeUrl(urls[i]), 0, Domain(urls[i]))]

\* Lines 297-317 and 360-372: the internal links of a page to enqueue.
InternalItemsAnyHost(item, links, crawled) ==
    LET all == [i \in 1..Len(links) |->
                  LET absolute_url == UrlJoin(item.url_str, links[i]) IN
                  FrontierItem(absolute_url, NormalizeUrl(absolute_url),
                               item.depth + 1, item.base_domain)]
    IN SelectSeq(all, LAMBDA it : it.normalized_url \notin crawled)

InternalItems(item, links, crawled) ==
    LET all == [i \in 1..Len(links) |->
                  LET absolute_url == UrlJoin(item.url_str, links[i]) IN
                  FrontierItem(absolute_url, NormalizeUrl(absolute_url),
                               item.depth + 1, item.base_domain)]
    IN SelectSeq(all, LAMBDA it :
            /\ it.normalized_url \notin crawled
            /\ it.url_str.netloc = item.base_domain.netloc)

\* Lines 319-342 and 374-390: the external links of a page to enqueue.
\* (ExternalItemsKeepOrigin: the item keeps the origin of the page it was
\* found on.)
ExternalItemsKeepOrigin(item, links, crawled) ==
    LET all == [i \in 1..Len(links) |->
                  FrontierItem(links[i], NormalizeUrl(links[i]),
                               item.depth + 1, item.base_domain)]
    IN SelectSeq(all, LAMBDA it :
            /\ it.normalized_url \notin crawled
            /\ it.url_str.netloc # item.base_domain.netloc)

ExternalItems(item, links, crawled) ==
    LET all == [i \in 1..Len(links) |->
                  FrontierItem(links[i], NormalizeUrl(links[i]),
                               item.depth + 1, Domain(links[i]))]
    IN SelectSeq(all, LAMBDA it :
            /\ it.normalized_url \notin crawled
            /\ it.url_str.netloc # item.base_domain.netloc)

\* to_crawl.append(...) with to_crawl.pop(0) (line 275): found links join the
\* queue behind what is waiting.
EnqueueInFront(queue, items) == items \o queue

Enqueue(queue, items) == queue \o items

\* The loop condition on the page budget: "len(results) < request.max_pages".
BudgetLeftOffByOne(r, nresults) == nresults <= r.max_pages

BudgetLeft(r, nresults) == nresults < r.max_pages

\* "request.cache_mode != 'bypass'": the cache is looked up.
ReadsCacheAlways(r) == TRUE

ReadsCache(r) == r.cache_mode # "bypass"

\* "request.cache_mode != 'disabled'": a successful result is stored.
WritesCache(r) == r.cache_mode # "disabled"

\* "if request.cache_mode != 'disabled' and result.success" (lines 205 and
\* 350). (StoresAnyResult: without the test of result.success.)
StoresAnyResult(r, result) == WritesCache(r)

StoresResult(r, result) == WritesCache(r) /\ result.success

\* "depth < request.max_depth - 1 and len(results) < request.max_pages"
CanGoDeeperAlways(item, r, nresults) == nresults < r.max_pages

CanGoDeeper(item, r, nresults) ==
    item.depth < r.max_depth - 1 /\ nresults < r.max_pages

ExpansionNever(item, r, page, crawled, nresults) == <<>>

\* The items a crawled or cached page adds to the queue.
Expansion(item, r, page, crawled, nresults) ==
    IF CanGoDeeper(item, r, nresults)
    THEN (IF r.follow_internal_links
          THEN InternalItems(item, page.internal_links, crawled) ELSE <<>>)
         \o
         (IF r.follow_external_links
          THEN ExternalItems(item, page.external_links, crawled) ELSE <<>>)
    ELSE <<>>

\* ------------------------------------------------------------------------
\* RateLimiter (services/rate_limiter.py)
\* ------------------------------------------------------------------------

\* asyncio.Lock.acquire() returns at once only when the lock is free and no
\* task is already queued for it.
LockAvailableNoMutex == TRUE

LockAvailable == ~locked /\ waiters = <<>>

\* sleep_time of acquire(): lines 61-64; 0 when no wait is needed.
SleepTime(current_time, last) ==
    IF last # None /\ current_time - last < TimeWindow
    THEN TimeWindow - (current_time - last)
    ELSE 0

\* The body of acquire() from line 59, run by task t holding the lock, up to
\* its first suspension: either it sleeps (line 66) or it completes (line 68)
\* and the lock is released on leaving the "async with".
\* (EnterCriticalKeepsLock: the path without sleep leaves the lock held.)
EnterCriticalKeepsLock(t) ==
    LET sleep_time == SleepTime(now, last_request_time) IN
    IF sleep_time > 0
    THEN /\ locked' = TRUE
         /\ rl_pc' = [rl_pc EXCEPT ![t] = "sleeping"]
         /\ wake_at' = [wake_at EXCEPT ![t] = now + sleep_time]
         /\ UNCHANGED <<last_request_time, completions, completers>>
    ELSE /\ locked' = TRUE
         /\ rl_pc' = [rl_pc EXCEPT ![t] = "idle"]
         /\ last_request_time' = now
         /\ completions' = Append(completions, now)
         /\ completers' = Append(completers, t)
         /\ UNCHANGED wake_at

EnterCritical(t) ==
    LET sleep_time == SleepTime(now, last_request_time) IN
    IF sleep_time > 0
    THEN /\ locked' = TRUE
         /\ rl_pc' = [rl_pc EXCEPT ![t] = "sleeping"]
         /\ wake_at' = [wake_at EXCEPT ![t] = now + sleep_time]
         /\ UNCHANGED <<last_request_time, completions, completers>>
    ELSE /\ locked' = FALSE
         /\ rl_pc' = [rl_pc EXCEPT ![t] = "idle"]
         /\ last_request_time' = now
         /\ completions' = Append(completions, now)
         /\ completers' = Append(completers, t)
         /\ UNCHANGED wake_at

\* A task calls acquire(): it takes the lock and runs on, or queues for it.
RLCall(t) ==
    /\ rl_pc[t] = "idle"
    /\ calls[t] < MaxCalls
    /\ calls' = [calls EXCEPT ![t] = @ + 1]
    /\ IF LockAvailable
       THEN EnterCritical(t) /\ UNCHANGED waiters
       ELSE /\ rl_pc' = [rl_pc EXCEPT ![t] = "waiting"]
            /\ waiters' = Append(waiters, t)
            /\ UNCHANGED <<last_request_time, locked, wake_at, completions,
                           completers>>
    /\ UNCHANGED <<now, notLimiter>>

\* The released lock is handed to the first queued task.
RLGrant(t) ==
    /\ rl_pc[t] = "waiting"
    /\ ~locked
    /\ waiters # <<>> /\ Head(waiters) = t
    /\ waiters' = Tail(waiters)
    /\ EnterCritical(t)
    /\ UNCHANGED <<now, calls, notLimiter>>

\* asyncio.sleep() returns, not before sleep_time has passed; line 68 reads
\* the clock again and the lock is released.
RLWake(t) ==
    /\ rl_pc[t] = "sleeping"
    /\ now >= wake_at[t]
    /\ last_request_time' = now
    /\ completions' = Append(completions, now)
    /\ completers' = Append(completers, t)
    /\ locked' = FALSE
    /\ rl_pc' = [rl_pc EXCEPT ![t] = "idle"]
    /\ UNCHANGED <<now, waiters, wake_at, calls, notLimiter>>

RLTick ==
    /\ now < RLMaxTime
    /\ now' = now + 1
    /\ UNCHANGED <<last_request_time, rlVars, notLimiter>>

\* Time passes while a task is in asyncio.sleep(sleep_time) (line 66), also
\* past the last tick at which calls are made.
RLSleepTick ==
    /\ now >= RLMaxTime
    /\ \E t \in Tasks : rl_pc[t] = "sleeping" /\ now < wake_at[t]
    /\ now' = now + 1
    /\ UNCHANGED <<last_request_time, rlVars, notLimiter>>

\* ------------------------------------------------------------------------
\* crawl_urls, one call at a time
\* ------------------------------------------------------------------------
MaxRequests == 2    \* crawl_urls calls in a run
MaxTime == 5        \* last tick of the clock in the crawl runs
MaxDepth == 3       \* largest max_depth requested
MaxPages == 3       \* largest max_pages requested

SeedLists == { <<RootA>>, <<PageP>>,
               <<RootA, Url("https", "a.com", "", 1, "", "x")>> }

LinkModes ==
    { m \in [scrape_internal_links : BOOLEAN, follow_internal_links : BOOLEAN,
             scrape_external_links : BOOLEAN, follow_external_links : BOOLEAN] :
        /\ m.follow_internal_links => m.scrape_internal_links
        /\ m.follow_external_links => m.scrape_external_links }

CrawlRequest(urls, m, max_depth, max_pages, cache_mode) ==
    [urls |-> urls,
     markdown_only |-> FALSE,
     scrape_internal_links |-> m.scrape_internal_links,
     scrape_external_links |-> m.scrape_external_links,
     follow_internal_links |-> m.follow_internal_links,
     follow_external_links |-> m.follow_external_links,
     max_depth |-> max_depth,
     max_pages |-> max_pages,
     capture_screenshots |-> FALSE,
     screenshot_width |-> DefaultScreenshotWidth,
     screenshot_height |-> DefaultScreenshotHeight,
     screenshot_wait_for |-> DefaultScreenshotWaitFor,
     cache_mode |-> cache_mode]

IsRecursive(r) == r.follow_internal_links \/ r.follow_external_links

\* The requests of the crawl runs; a request that follows no links leaves
\* max_depth and max_pages at one value, since nothing reads them.
Requests ==
    { r \in { CrawlRequest(urls, m, d, p, c) :
                urls \in SeedLists, m \in LinkModes, d \in 1..MaxDepth,
                p \in 1..MaxPages, c \in {"enabled", "disabled", "bypass"} } :
        /\ ValidRequest(r)
        /\ ~IsRecursive(r) => (r.max_depth = 1 /\ r.max_pages = MaxPages) }

\* The requests of the sessions: the seeds with and without following the
\* internal links they scrape, so that the calls share cache keys.
SessionRequests ==
    { r \in Requests :
        /\ Len(r.urls) = 1
        /\ r.scrape_internal_links /\ ~r.scrape_external_links
        /\ IsRecursive(r) => (r.max_depth > 1 /\ r.max_pages = MaxPages) }

NoRequest == CrawlRequest(<<>>, [scrape_internal_links |-> FALSE,
                                 follow_internal_links |-> FALSE,
                                 scrape_external_links |-> FALSE,
                                 follow_external_links |-> FALSE], 1, 1, "enabled")

NoPrev == [valid |-> FALSE, request |-> NoRequest, started_at |-> 0,
           cached_count |-> 0, all_success |-> FALSE, total |-> 0]

\* What is kept of a call that returned, when the next one starts.
Summary ==
    IF pc = "done"
    THEN [valid |-> TRUE, request |-> request, started_at |-> started_at,
          cached_count |-> cached_count,
          all_success |-> \A i \in 1..Len(results) : results[i].success,
          total |-> Len(results)]
    ELSE NoPrev

\* crawl_urls is called (lines 156-163) and the loop it selects is set up
\* (lines 183-187 or 257-271).
Begin(r) ==
    /\ nreq' = nreq + 1
    /\ prev' = Summary
    /\ request' = r
    /\ started_at' = now
    /\ results' = <<>>
    /\ cached_count' = 0
    /\ attempted' = <<>>
    /\ served' = <<>>
    /\ posts' = <<>>
    /\ acquires' = 0
    /\ crawled_urls' = {}
    /\ IF IsRecursive(r)
       THEN pc' = "recursive" /\ to_crawl' = SeedItems(r.urls) /\ next_url' = 1
       ELSE pc' = "simple" /\ to_crawl' = <<>> /\ next_url' = 1
    /\ UNCHANGED <<now, last_request_time, rlVars, cacheVars, exVars, sideVars>>

\* The first call on a fresh service.
StartCall(r) == pc = "idle" /\ Begin(r)

\* A further call, after the previous one returned or raised.
StartAgain(r) == pc \in {"done", "raised"} /\ nreq < MaxRequests /\ Begin(r)

\* The field values CrawlRequest(...) is called with: every combination of
\* the link flags, depths and page budgets on both sides of each limit, and
\* seed lists on both sides of the limit of three.
DepthsTried == {0, 1, 3, 4, DepthLimit, DepthLimit + 1}
PagesTried == {0, 1, 20, 21, PagesLimit, PagesLimit + 1}
FlagsTried ==
    [scrape_internal_links : BOOLEAN, follow_internal_links : BOOLEAN,
     scrape_external_links : BOOLEAN, follow_external_links : BOOLEAN]
SeedsTried == { <<>>, <<RootA>>, <<PageP>>, <<RootA, PageP, RootB, PageR>> }

ValidInputs ==
    { CrawlRequest(urls, m, d, p, "enabled") :
        urls \in SeedsTried, m \in FlagsTried, d \in DepthsTried, p \in PagesTried }

\* CrawlRequest(...) is constructed: pydantic checks the fields, then runs
\* the model validator, and raises ValidationError when either fails.
ValidateRun ==
    /\ val_out = "none"
    /\ val_out' = IF ValidFields(val_in) /\ ValidRequest(val_in)
                  THEN "accepted" ELSE "rejected"
    /\ UNCHANGED <<now, last_request_time, rlVars, cacheVars, callVars, exVars,
                   storeVars, concVars, geoVars, pollVars, keyVars, normVars, val_in>>

\* crawl_urls is called with the request that was accepted.
ValidCall == val_out = "accepted" /\ StartCall(val_in)

\* The time at which a sequential acquire() called at time t returns.
AcquireReturn(t) ==
    IF last_request_time # None /\ t - last_request_time < CrawlTimeWindow
    THEN t + (CrawlTimeWindow - (t - last_request_time))
    ELSE t

\* Lines 345-351 and 200-206: the URL of item is crawled with the upstream
\* behaving as up, on the store c left by the cache lookup; the result is
\* appended and, when the mode allows, stored. expand tells whether the
\* caller is the recursive loop.
FreshCrawl(item, up, c, crawled, expand) ==
    LET t_acquired == AcquireReturn(now)
        t_done == t_acquired + Duration(up)
        out == CrawlSingleUrl(item.url_str, request, item.depth, up)
        result == out.value
        stored == CacheSet(c, url_to_keys, item.url_str,
                           RequestToOptions(request), result, t_done)
    IN /\ t_done <= MaxTime
       /\ now' = t_done
       /\ last_request_time' = t_acquired
       /\ acquires' = acquires + 1
       /\ posts' = Append(posts, item.url_str)
       /\ IF out.raised
          THEN /\ pc' = "raised"
               /\ cache' = c
               /\ UNCHANGED <<url_to_keys, results, attempted, served>>
               /\ IF expand THEN to_crawl' = Tail(to_crawl) ELSE TRUE
          ELSE /\ pc' = pc
               /\ results' = Append(results, result)
               /\ attempted' = Append(attempted, item)
               /\ served' = Append(served, FALSE)
               /\ IF StoresResult(request, result)
                  THEN cache' = stored.store /\ url_to_keys' = stored.index
                  ELSE cache' = c /\ UNCHANGED url_to_keys
               /\ IF expand
                  THEN to_crawl' = Enqueue(Tail(to_crawl),
                         IF result.success
                         THEN Expansion(item, request, result, crawled,
                                        Len(results) + 1)
                         ELSE <<>>)
                  ELSE TRUE

\* Lines 286-343: the cached data serves the URL of item at its depth; the
\* depth is written into the dict the cache holds.
UpdateDepthOfCopy(c, key, depth) == c

UpdateDepth(c, key, depth) ==
    [c EXCEPT ![key] = [@ EXCEPT !.data = [@ EXCEPT !.depth = depth]]]

\* One iteration of the while loop of _crawl_recursive (lines 274-390).
RecursiveStep ==
    /\ pc = "recursive"
    /\ to_crawl # <<>> /\ BudgetLeft(request, Len(results))
    /\ LET item == Head(to_crawl) IN
       IF item.normalized_url \in crawled_urls
       THEN /\ to_crawl' = Tail(to_crawl)
            /\ UNCHANGED <<now, last_request_time, cacheVars, pc, crawled_urls,
                           results, cached_count, attempted, served, posts,
                           acquires>>
       ELSE LET crawled == crawled_urls \cup {item.normalized_url}
                got == CacheGet(cache, item.url_str, RequestToOptions(request), now)
            IN /\ crawled_urls' = crawled
               /\ IF ReadsCache(request) /\ got.found
                  THEN LET hit == UpdateDepth(cache, got.key, item.depth)
                           cached_result == hit[got.key].data
                       IN /\ cache' = hit
                          /\ cached_count' = cached_count + 1
                          /\ results' = Append(results, cached_result)
                          /\ attempted' = Append(attempted, item)
                          /\ served' = Append(served, TRUE)
                          /\ to_crawl' = Enqueue(Tail(to_crawl),
                                Expansion(item, request, cached_result, crawled,
                                          Len(results) + 1))
                          /\ UNCHANGED <<now, last_request_time, url_to_keys, pc,
                                         posts, acquires>>
                  ELSE /\ \E up \in CrawlUpstreams(item.url_str) :
                            FreshCrawl(item, up,
                                       IF ReadsCache(request)
                                       THEN got.store ELSE cache,
                                       crawled, TRUE)
                       /\ UNCHANGED cached_count
    /\ UNCHANGED <<rlVars, exVars, sideVars, request, next_url, started_at, prev,
                   nreq>>

\* One iteration of the for loop of _crawl_simple (lines 189-206).
SimpleStep ==
    /\ pc = "simple"
    /\ next_url <= Len(request.urls)
    /\ next_url' = next_url + 1
    /\ LET url_str == request.urls[next_url]
           item == FrontierItem(url_str, NormalizeUrl(url_str), 0, Domain(url_str))
           got == CacheGet(cache, url_str, RequestToOptions(request), now)
       IN IF ReadsCache(request) /\ got.found
          THEN /\ cached_count' = cached_count + 1
               /\ results' = Append(results, cache[got.key].data)
               /\ attempted' = Append(attempted, item)
               /\ served' = Append(served, TRUE)
               /\ UNCHANGED <<now, last_request_time, cacheVars, pc, posts,
                              acquires>>
          ELSE /\ \E up \in CrawlUpstreams(url_str) :
                    FreshCrawl(item, up,
                               IF ReadsCache(request)
                               THEN got.store ELSE cache,
                               crawled_urls, FALSE)
               /\ UNCHANGED cached_count
    /\ UNCHANGED <<rlVars, exVars, sideVars, request, to_crawl, crawled_urls, started_at,
                   prev, nreq>>

CreateFromResultsNoCached(rs, ncached) ==
    [total_urls |-> Len(rs),
     successful_crawls |-> Cardinality({ i \in 1..Len(rs) : rs[i].success }),
     failed_crawls |-> Len(rs) - Cardinality({ i \in 1..Len(rs) : rs[i].success }),
     cached_results |-> 0,
     results |-> rs]

\* CrawlingResponse.create_from_results (models/crawling.py, 345-374).
CreateFromResults(rs, ncached) ==
    LET successful == Cardinality({ i \in 1..Len(rs) : rs[i].success })
        failed == Len(rs) - successful
    IN [total_urls |-> Len(rs),
        successful_crawls |-> successful,
        failed_crawls |-> failed,
        cached_results |-> ncached,
        results |-> rs]

\* CrawlingResponse.validate_response_consistency: FALSE when the
\* constructor raises.
ValidateResponseConsistency(resp) ==
    LET actual_successful == Cardinality({ i \in 1..Len(resp.results) : resp.results[i].success })
        actual_failed == Cardinality({ i \in 1..Len(resp.results) : ~resp.results[i].success })
    IN /\ Len(resp.results) = resp.total_urls
       /\ actual_successful = resp.successful_crawls
       /\ actual_failed = resp.failed_crawls
       /\ resp.successful_crawls + resp.failed_crawls = resp.total_urls
       /\ ~(resp.cached_results > resp.total_urls)

\* The loop has ended: crawl_urls builds the response and returns it
\* (lines 165-169).
Finish ==
    /\ \/ pc = "recursive" /\ ~(to_crawl # <<>> /\ BudgetLeft(request, Len(results)))
       \/ pc = "simple" /\ next_url > Len(request.urls)
    /\ pc' = IF ValidateResponseConsistency(CreateFromResults(results, cached_count))
             THEN "done" ELSE "raised"
    /\ UNCHANGED <<now, last_request_time, rlVars, cacheVars, exVars, sideVars, request,
                   to_crawl, crawled_urls, next_url, results, cached_count,
                   attempted, served, posts, acquires, started_at, prev, nreq>>

\* Time passes between two calls; during a call the clock advances with the
\* rate limiter's waits and the upstream polls.
Tick ==
    /\ pc \in {"done", "raised"}
    /\ now < MaxTime
    /\ now' = now + 1
    /\ UNCHANGED <<last_request_time, rlVars, cacheVars, callVars, exVars, sideVars>>

\* ------------------------------------------------------------------------
\* One run of the single-page executor on every upstream behaviour
\* ------------------------------------------------------------------------
MaxExecDepth == 2   \* largest depth the executor is called with

Messages == { <<>>, <<"connection refused">> }
Markdowns == { <<>>, <<"# Page">> }
Screenshots == { "none", "png", "bad_signature", "too_short", "bad_base64" }
NotFound == 404

Payloads ==
    { [malformed |-> m, has_results |-> h, status_code |-> s, markdown |-> md,
       internal |-> << Rel("/p", 0, ""), EmptyHref >>, external |-> << RootB >>,
       screenshot |-> shot] :
        m \in BOOLEAN, h \in BOOLEAN, s \in {HttpOk, NotFound}, md \in Markdowns,
        shot \in Screenshots }

Upstreams ==
    { Upstream(post, msg, 0, "completed", Payload(<<>>, NoLinks)) :
        post \in {"exc", "http_error", "no_task_id"}, msg \in Messages }
    \cup
    { Upstream("ok", msg, pending, final, Payload(<<>>, NoLinks)) :
        msg \in Messages, pending \in {0, 1, MaxPolls - 1, MaxPolls},
        final \in {"failed", "exc", "http_error", "cancelled"} }
    \cup
    { Upstream("ok", <<>>, pending, "completed", payload) :
        pending \in {0, MaxPolls - 1, MaxPolls}, payload \in Payloads }

ExecRequests ==
    { [CrawlRequest(<<RootA>>, m, 1, 1, "enabled")
         EXCEPT !.capture_screenshots = shot] :
        m \in { x \in LinkModes : ~x.follow_internal_links /\ ~x.follow_external_links },
        shot \in BOOLEAN }

ExecInputs ==
    [url : {RootA, PageP, Url("https", "a.com", "/p", 1, "", "")},
     request : ExecRequests, depth : 0..MaxExecDepth, up : Upstreams]

NoResult == Failure(EmptyHref, 0, <<>>, None)
NoInput == [url |-> EmptyHref, request |-> NoRequest, depth |-> 0, up |-> FailUp]
NoOutput == [done |-> FALSE, raised |-> FALSE, result |-> NoResult]

\* _crawl_single_url is called once and runs to its end.
ExecRun ==
    /\ ~ex_out.done
    /\ ex_in # NoInput
    /\ LET out == CrawlSingleUrl(ex_in.url, ex_in.request, ex_in.depth, ex_in.up) IN
       ex_out' = [done |-> TRUE, raised |-> out.raised,
                  result |-> IF out.raised THEN NoResult ELSE out.value]
    /\ last_request_time' = now
    /\ UNCHANGED <<now, rlVars, cacheVars, callVars, sideVars, ex_in>>

\* The caller stores the result of the run as _crawl_simple and
\* _crawl_recursive do: a successful one, unless the cache is disabled
\* (lines 204-206 and 349-351).
ExecStore ==
    /\ ex_out.done /\ ~ex_out.raised
    /\ StoresResult(ex_in.request, ex_out.result)
    /\ cache = EmptyDict
    /\ LET stored == CacheSet(cache, url_to_keys, ex_in.url,
                              RequestToOptions(ex_in.request), ex_out.result, now)
       IN cache' = stored.store /\ url_to_keys' = stored.index
    /\ UNCHANGED <<now, last_request_time, rlVars, callVars, exVars, sideVars>>

\* A later crawl reaches the URL at some depth and is served from the cache:
\* CrawlResult(**cached_result) is built from the stored dict (lines 192-197
\* and 284-290), which runs the validator again.
ExecServe(depth) ==
    /\ pc = "idle" /\ results = <<>>
    /\ ReadsCache(ex_in.request)
    /\ LET got == CacheGet(cache, ex_in.url, RequestToOptions(ex_in.request), now) IN
       /\ got.found
       /\ LET hit == UpdateDepth(cache, got.key, depth)
              cached_result == hit[got.key].data
          IN /\ cache' = hit
             /\ IF ValidateSuccessConsistency(cached_result)
                THEN /\ results' = <<cached_result>>
                     /\ served' = <<TRUE>>
                     /\ cached_count' = 1
                     /\ pc' = pc
                ELSE /\ pc' = "raised"
                     /\ UNCHANGED <<results, served, cached_count>>
    /\ UNCHANGED <<now, last_request_time, url_to_keys, rlVars, exVars, sideVars,
                   request, to_crawl, crawled_urls, next_url, attempted, posts,
                   acquires, started_at, prev, nreq>>

\* ------------------------------------------------------------------------
\* The cache stores called directly (services/crawl_cache.py,
\* services/cache.py): any sequence of their operations with time passing
\* ------------------------------------------------------------------------
MaxOps == 3         \* cache operations in a run
GeoTtl == 2         \* GeocodingCache.ttl, in ticks
CacheMaxTime == Ttl + 1     \* last tick of the clock in the cache runs

Services == {"rest", "mcp"}

Absent == "absent"                  \* get() returned None
CacheData == {"v1", "v2"}           \* the dicts stored
SlashP == Url("https", "a.com", "/p", 1, "", "")
CacheUrls == {PageP, SlashP, RootB}
CacheOptions ==
    { RequestToOptions(r) :
        r \in {NoRequest, [NoRequest EXCEPT !.scrape_internal_links = TRUE]} }
Cities == {"Paris", " paris "}
NoCity == ""

\* mcp tools: "_geocoding_service: Optional[GeocodingService] = None".
NotCreated == "none"

\* What a geocode_city call returned: a GeocodingResponse (kind "response"),
\* None (kind "absent") or an exception (kind "raised"); asked is the city it
\* was called with.
GeoOut(kind, asked, city, location, cached, msg) == [kind |-> kind, asked |-> asked, city |-> city, location |-> location, cached |-> cached, msg |-> msg]

NoGeoOut == GeoOut("none", NoCity, NoCity, "", FALSE, "")

notStore == <<last_request_time, rlVars, callVars, exVars, concVars, geoVars, pollVars,
              keyVars, normVars, validVars>>

GeoGetKeyExact(city) == city

\* GeocodingCache._get_key: city.lower().strip(), hashed without collisions.
GeoGetKey(city) ==
    CASE city = "Paris" -> "paris"
      [] city = " paris " -> "paris"
      [] city = "ROME" -> "rome"
      [] OTHER -> city

\* "datetime.now() - timestamp < self.ttl" fails.
GeoExpired(timestamp, t) == ~(t - timestamp < GeoTtl)

\* GeocodingCache.get at time t on the store c.
GeoCacheGet(c, city, t) ==
    LET key == GeoGetKey(city) IN
    IF key \notin DOMAIN c
    THEN [found |-> FALSE, key |-> key, store |-> c]
    ELSE IF GeoExpired(c[key].timestamp, t)
         THEN [found |-> FALSE, key |-> key, store |-> Without(c, key)]
         ELSE [found |-> TRUE, key |-> key, store |-> c]

\* GeocodingCache.set at time t.
GeoCacheSet(c, city, data, t) ==
    With(c, GeoGetKey(city), [data |-> data, timestamp |-> t])

\* CrawlingCache.cleanup_expired: the keys it removes.
\* (ExpiredKeysFromTtl: with ">=" in place of ">".)
ExpiredKeysFromTtl(c, t) == { k \in DOMAIN c : t - c[k].timestamp >= Ttl }

ExpiredKeys(c, t) == { k \in DOMAIN c : t - c[k].timestamp > Ttl }

\* CrawlingCache._cleanup_reverse_lookup
CleanupReverseLookup(u2k, removed_keys) ==
    LET left == [u \in DOMAIN u2k |-> u2k[u] \ removed_keys]
        urls_to_remove == { u \in DOMAIN left : left[u] = {} }
    IN [u \in DOMAIN left \ urls_to_remove |-> left[u]]

\* A dict without the keys in ks.
WithoutAll(d, ks) == [x \in DOMAIN d \ ks |-> d[x]]

\* The record of an operation: what was asked, what the store held under
\* the key when it was called, and what it returned. The two stores are
\* separate objects: a run calls one of them.
Op(name, store, url, key, ret, count, held, stored_at, n) ==
    [name |-> name, store |-> store, url |-> url, key |-> key, ret |-> ret,
     count |-> count, held |-> held, stored_at |-> stored_at, n |-> n]

NoOp == Op("none", "none", EmptyHref, "", Absent, 0, FALSE, None, 0)

\* CrawlingCache.set(url, options, data)
CSet(url, options, data) ==
    /\ op.n < MaxOps /\ op.store \in {"none", "crawl"}
    /\ LET key == GetKey(url, options)
           held == key \in DOMAIN cache
           stored == CacheSet(cache, url_to_keys, url, options, data, now)
       IN /\ cache' = stored.store
          /\ url_to_keys' = stored.index
          /\ last_set' = With(last_set, key, [data |-> data, at |-> now])
          /\ op' = Op("set", "crawl", EmptyHref, key, data, Cardinality(DOMAIN cache),
                      held, IF held THEN cache[key].timestamp ELSE None, op.n + 1)
    /\ UNCHANGED <<now, geo_cache, notStore>>

\* CrawlingCache.get(url, options)
CGet(url, options) ==
    /\ op.n < MaxOps /\ op.store \in {"none", "crawl"}
    /\ LET got == CacheGet(cache, url, options, now)
           held == got.key \in DOMAIN cache
       IN /\ cache' = got.store
          /\ op' = Op("get", "crawl", EmptyHref, got.key,
                      IF got.found THEN cache[got.key].data ELSE Absent,
                      Cardinality(DOMAIN cache), held,
                      IF held THEN cache[got.key].timestamp ELSE None, op.n + 1)
    /\ UNCHANGED <<now, url_to_keys, last_set, geo_cache, notStore>>

\* CrawlingCache.cleanup_expired()
CCleanupExpired ==
    /\ op.n < MaxOps /\ op.store \in {"none", "crawl"}
    /\ LET expired_keys == ExpiredKeys(cache, now) IN
          /\ cache' = WithoutAll(cache, expired_keys)
          /\ url_to_keys' = CleanupReverseLookup(url_to_keys, expired_keys)
          /\ op' = Op("cleanup_expired", "crawl", EmptyHref, "", Absent,
                      Cardinality(expired_keys), FALSE, None, op.n + 1)
    /\ UNCHANGED <<now, last_set, geo_cache, notStore>>

\* CrawlingCache.clear()
CClear ==
    /\ op.n < MaxOps /\ op.store \in {"none", "crawl"}
    /\ cache' = EmptyDict
    /\ url_to_keys' = EmptyDict
    /\ last_set' = EmptyDict
    /\ op' = Op("clear", "crawl", EmptyHref, "", Absent, Cardinality(DOMAIN cache),
                FALSE, None, op.n + 1)
    /\ UNCHANGED <<now, geo_cache, notStore>>

\* CrawlingCache.invalidate_url(url)
CInvalidateUrl(url) ==
    /\ op.n < MaxOps /\ op.store \in {"none", "crawl"}
    /\ LET normalized_url == CacheNormalizeUrl(url) IN
       IF normalized_url \notin DOMAIN url_to_keys
       THEN /\ op' = Op("invalidate_url", "crawl", url, "", Absent, 0, FALSE, None,
                        op.n + 1)
            /\ UNCHANGED <<cache, url_to_keys, last_set>>
       ELSE LET keys_to_remove == url_to_keys[normalized_url] IN
            /\ cache' = WithoutAll(cache, keys_to_remove)
            /\ url_to_keys' = Without(url_to_keys, normalized_url)
            /\ last_set' = WithoutAll(last_set, keys_to_remove)
            /\ op' = Op("invalidate_url", "crawl", url, "", Absent,
                        Cardinality(keys_to_remove), FALSE, None, op.n + 1)
    /\ UNCHANGED <<now, geo_cache, notStore>>

\* GeocodingCache.set(city, data) on the REST router's service.
GSet(city, data) ==
    /\ op.n < MaxOps /\ op.store \in {"none", "geo"}
    /\ LET c == geo_cache["rest"]
           key == GeoGetKey(city)
           held == key \in DOMAIN c
       IN /\ geo_cache' = [geo_cache EXCEPT !["rest"] = GeoCacheSet(c, city, data, now)]
          /\ op' = Op("set", "geo", EmptyHref, key, data, Cardinality(DOMAIN c), held,
                      IF held THEN c[key].timestamp ELSE None, op.n + 1)
    /\ UNCHANGED <<now, cacheVars, last_set, notStore>>

\* GeocodingCache.get(city) on the REST router's service.
GGet(city) ==
    /\ op.n < MaxOps /\ op.store \in {"none", "geo"}
    /\ LET c == geo_cache["rest"]
           got == GeoCacheGet(c, city, now)
           held == got.key \in DOMAIN c
       IN /\ geo_cache' = [geo_cache EXCEPT !["rest"] = got.store]
          /\ op' = Op("get", "geo", EmptyHref, got.key,
                      IF got.found THEN c[got.key].data ELSE Absent,
                      Cardinality(DOMAIN c), held,
                      IF held THEN c[got.key].timestamp ELSE None, op.n + 1)
    /\ UNCHANGED <<now, cacheVars, last_set, notStore>>

\* GeocodingCache.cleanup_expired: the keys it removes.
GeoExpiredKeys(c, t) == { k \in DOMAIN c : t - c[k].timestamp >= GeoTtl }

\* GeocodingCache.cleanup_expired() on the REST router's service.
GCleanupExpired ==
    /\ op.n < MaxOps /\ op.store \in {"none", "geo"}
    /\ LET c == geo_cache["rest"]
           expired_keys == GeoExpiredKeys(c, now)
       IN /\ geo_cache' = [geo_cache EXCEPT !["rest"] = WithoutAll(c, expired_keys)]
          /\ op' = Op("cleanup_expired", "geo", EmptyHref, "", Absent,
                      Cardinality(expired_keys), FALSE, None, op.n + 1)
    /\ UNCHANGED <<now, cacheVars, last_set, notStore>>

\* GeocodingCache.clear() on the REST router's service: the method has no
\* return statement, the call evaluates to None.
GClear ==
    /\ op.n < MaxOps /\ op.store \in {"none", "geo"}
    /\ geo_cache' = [geo_cache EXCEPT !["rest"] = EmptyDict]
    /\ op' = Op("clear", "geo", EmptyHref, "", Absent, None, FALSE, None, op.n + 1)
    /\ UNCHANGED <<now, cacheVars, last_set, notStore>>

\* Time passes between two operations.
CacheTick ==
    /\ now < CacheMaxTime
    /\ now' = now + 1
    /\ op' = [op EXCEPT !.name = "tick"]
    /\ UNCHANGED <<cacheVars, last_set, geo_cache, notStore>>

\* ------------------------------------------------------------------------
\* Cache keys of pairs of requests for one URL (CrawlingCache._get_key on
\* CrawlingService._request_to_options)
\* ------------------------------------------------------------------------
MaxDiffs == 2       \* fields in which the two requests of a pair may differ

OtherScreenshotWidth == 1280
OtherScreenshotHeight == 720
OtherScreenshotWaitFor == 5

KeyFields ==
    {"markdown_only", "scrape_internal_links", "scrape_external_links",
     "capture_screenshots", "screenshot_width", "screenshot_height",
     "screenshot_wait_for", "follow_internal_links", "max_depth", "cache_mode"}

KeyRequests ==
    { r \in [urls : {<<RootA>>},
             follow_internal_links : BOOLEAN, scrape_internal_links : BOOLEAN,
             follow_external_links : {FALSE}, scrape_external_links : BOOLEAN,
             max_depth : {1, 2}, max_pages : {1},
             markdown_only : BOOLEAN, capture_screenshots : BOOLEAN,
             screenshot_width : {DefaultScreenshotWidth, OtherScreenshotWidth},
             screenshot_height : {DefaultScreenshotHeight, OtherScreenshotHeight},
             screenshot_wait_for : {DefaultScreenshotWaitFor, OtherScreenshotWaitFor},
             cache_mode : {"enabled", "bypass"}] : ValidRequest(r) }

\* The fields in which two requests differ.
Diff(a, b) == { f \in KeyFields : a[f] # b[f] }

KeyInputs ==
    { p \in [a : KeyRequests, b : KeyRequests] : Cardinality(Diff(p.a, p.b)) <= MaxDiffs }

NoKeyInput == [a |-> NoRequest, b |-> NoRequest]
NoKeys == [done |-> FALSE, a |-> "", b |-> ""]

\* Both requests are turned into options and keyed for their URL.
KeyRun ==
    /\ ~key_out.done
    /\ key_in # NoKeyInput
    /\ key_out' = [done |-> TRUE,
                   a |-> GetKey(key_in.a.urls[1], RequestToOptions(key_in.a)),
                   b |-> GetKey(key_in.b.urls[1], RequestToOptions(key_in.b))]
    /\ UNCHANGED <<now, last_request_time, rlVars, cacheVars, callVars, exVars,
                   storeVars, concVars, geoVars, pollVars, key_in,
                   normVars, validVars>>

\* ------------------------------------------------------------------------
\* _normalize_url on URL strings
\*
\* Here a URL string is the sequence of its tokens: a scheme, "://", a
\* host, and then the delimiters "/", ";", "?", "#" with the texts between
\* them.  urlparse() and urlunparse() act on that sequence as urllib.parse
\* acts on the characters of an absolute URL with a host.
\* ------------------------------------------------------------------------
MaxPathLen == 3      \* tokens in the path of an input URL
MaxNormalize == 2    \* successive _normalize_url applications in one run

\* str.find(tok, from): the first position from `from` on that holds tok,
\* 0 when there is none.
Find(s, tok, from) ==
    IF \E i \in from..Len(s) : s[i] = tok
    THEN CHOOSE i \in from..Len(s) : s[i] = tok /\ \A j \in from..(i - 1) : s[j] # tok
    ELSE 0

\* str.rfind(tok): the last position that holds tok, 0 when there is none.
RFind(s, tok) ==
    IF \E i \in 1..Len(s) : s[i] = tok
    THEN CHOOSE i \in 1..Len(s) : s[i] = tok /\ \A j \in (i + 1)..Len(s) : s[j] # tok
    ELSE 0

\* urllib.parse._splitparams: the parameters are what follows the first ";"
\* of the last path segment.
SplitParams(path) ==
    LET i == IF RFind(path, "/") > 0 THEN Find(path, ";", RFind(path, "/"))
             ELSE Find(path, ";", 1)
    IN  IF i = 0 THEN [path |-> path, params |-> <<>>]
        ELSE [path |-> SubSeq(path, 1, i - 1), params |-> SubSeq(path, i + 1, Len(path))]

\* urlparse(url): the scheme (lower-cased) and the host, then the fragment
\* after the first "#", the query after the first "?" before it, and the
\* path split from its parameters.
UrlParse(url) ==
    LET h == Find(url, "#", 1)
        nofrag == IF h = 0 THEN url ELSE SubSeq(url, 1, h - 1)
        q == Find(nofrag, "?", 1)
        noquery == IF q = 0 THEN nofrag ELSE SubSeq(nofrag, 1, q - 1)
        sp == SplitParams(SubSeq(noquery, 4, Len(noquery)))
    IN  [scheme |-> Lower(url[1]), netloc |-> url[3],
         path |-> sp.path, params |-> sp.params,
         query |-> IF q = 0 THEN <<>> ELSE SubSeq(nofrag, q + 1, Len(nofrag)),
         fragment |-> IF h = 0 THEN <<>> ELSE SubSeq(url, h + 1, Len(url))]

\* urlunparse(parts): non-empty parameters go back behind ";", a path not
\* starting with "/" gets one after the host, and an empty query or
\* fragment leaves no delimiter.
UrlUnparse(parts) ==
    LET withparams == IF parts.params # <<>> THEN parts.path \o <<";">> \o parts.params
                      ELSE parts.path
        rooted == IF withparams # <<>> /\ withparams[1] # "/" THEN <<"/">> \o withparams
                  ELSE withparams
    IN  <<parts.scheme, "://", parts.netloc>> \o rooted
        \o (IF parts.query # <<>> THEN <<"?">> \o parts.query ELSE <<>>)
        \o (IF parts.fragment # <<>> THEN <<"#">> \o parts.fragment ELSE <<>>)

\* path.rstrip("/")
RStripSlash(path) ==
    LET keep == {i \in 1..Len(path) : path[i] # "/"}
    IN  IF keep = {} THEN <<>>
        ELSE SubSeq(path, 1, CHOOSE i \in keep : \A j \in keep : j <= i)

\* CrawlingService._normalize_url on the string.
NormalizeUrlString(url) ==
    LET parsed == UrlParse(url)
        path == parsed.path
        normalized_path == IF path = <<>> \/ path = <<"/">> THEN <<>> ELSE RStripSlash(path)
    IN  UrlUnparse([scheme |-> Lower(parsed.scheme), netloc |-> Lower(parsed.netloc),
                    path |-> normalized_path, params |-> parsed.params,
                    query |-> parsed.query, fragment |-> <<>>])

\* url.count("/"): two in "://" and one per "/".
CountSlashesString(url) == 2 + Cardinality({i \in 1..Len(url) : url[i] = "/"})

\* CrawlingCache._normalize_url on the string: lower-case all of it, then
\* rstrip("/") when it ends with "/" and holds more than two of them.
CacheNormalizeUrlString(url) ==
    LET url_str == [i \in 1..Len(url) |-> Lower(url[i])] IN
    IF url_str[Len(url_str)] = "/" /\ CountSlashesString(url_str) > 2
    THEN RStripSlash(url_str)
    ELSE url_str

\* The URLs normalized: either case of scheme and host, every path of up to
\* MaxPathLen tokens, with and without query and fragment.
PathTokens == {"/", ";", "p", "P"}

Paths ==
    {<<>>} \cup {s \in UNION {[1..n -> PathTokens] : n \in 1..MaxPathLen} : s[1] = "/"}

UrlParts ==
    [scheme : {"https", "HTTPS"}, netloc : {"a.com", "A.com"}, path : Paths,
     query : {<<>>, <<"k=v">>, <<"K=v">>}, fragment : {<<>>, <<"x">>}]

\* The string of a URL given by its parts.
UrlString(parts) ==
    <<parts.scheme, "://", parts.netloc>> \o parts.path
    \o (IF parts.query # <<>> THEN <<"?">> \o parts.query ELSE <<>>)
    \o (IF parts.fragment # <<>> THEN <<"#">> \o parts.fragment ELSE <<>>)

\* str.swapcase() on the tokens URLs are built from.
SwapCase(tok) ==
    CASE tok = "https" -> "HTTPS"
      [] tok = "HTTPS" -> "https"
      [] tok = "a.com" -> "A.com"
      [] tok = "A.com" -> "a.com"
      [] tok = "p" -> "P"
      [] tok = "P" -> "p"
      [] OTHER -> tok

\* A second URL that differs from the first in one respect only.
Differences ==
    {"fragment", "trailing_slash", "root_path", "scheme_case", "host_case",
     "path_case", "query"}

CanDiffer(parts, kind) ==
    CASE kind = "trailing_slash" -> parts.path # <<>> /\ parts.path # <<"/">>
      [] kind = "root_path" -> parts.path = <<>>
      [] kind = "path_case" -> \E i \in 1..Len(parts.path) : parts.path[i] \in {"p", "P"}
      [] OTHER -> TRUE

Differing(parts, kind) ==
    CASE kind = "fragment" ->
            [parts EXCEPT !.fragment = IF parts.fragment = <<>> THEN <<"x">> ELSE <<>>]
      [] kind = "trailing_slash" -> [parts EXCEPT !.path = parts.path \o <<"/">>]
      [] kind = "root_path" -> [parts EXCEPT !.path = <<"/">>]
      [] kind = "scheme_case" -> [parts EXCEPT !.scheme = SwapCase(parts.scheme)]
      [] kind = "host_case" -> [parts EXCEPT !.netloc = SwapCase(parts.netloc)]
      [] kind = "path_case" ->
            [parts EXCEPT !.path = [i \in 1..Len(parts.path) |-> SwapCase(parts.path[i])]]
      [] kind = "query" ->
            [parts EXCEPT !.query = IF parts.query = <<>> THEN <<"k=v">>
                                    ELSE IF parts.query = <<"k=v">> THEN <<"K=v">>
                                    ELSE <<>>]

NormInput(url, other, differ) == [url |-> url, other |-> other, differ |-> differ]

NormInputs ==
    {NormInput(UrlString(p[1]), UrlString(Differing(p[1], p[2])), p[2]) :
        p \in {pk \in UrlParts \X Differences : CanDiffer(pk[1], pk[2])}}

NoNormInput == NormInput(<<>>, <<>>, "none")

\* Both URLs are normalized; a later run normalizes what the run before
\* returned.
NormalizeRun ==
    /\ norm_in # NoNormInput
    /\ Len(norm_out) < MaxNormalize
    /\ LET last == IF norm_out = <<>> THEN norm_in ELSE norm_out[Len(norm_out)]
       IN  norm_out' = Append(norm_out, [url |-> NormalizeUrlString(last.url),
                                         other |-> NormalizeUrlString(last.other),
                                         cache_url |-> CacheNormalizeUrlString(last.url),
                                         cache_other |-> CacheNormalizeUrlString(last.other)])
    /\ UNCHANGED <<now, last_request_time, rlVars, cacheVars, callVars, exVars,
                   storeVars, concVars, geoVars, pollVars, keyVars, norm_in,
                   validVars>>

\* ------------------------------------------------------------------------
\* The poll loop of CrawlingService._wait_for_task_completion, one poll at a
\* time, the task endpoint answering whatever it likes
\* ------------------------------------------------------------------------
TaskIds == {"task-1", "task-2"}
NoTask == ""

WaitingStatuses == {"pending", "running", "processing"}
\* "None": the answer has no "status".
PollStatuses == WaitingStatuses \cup {"completed", "failed", "cancelled", "None"}

\* task_result: its status, its "error" ("" when it has none) and its results.
TaskResult(status, error, payload) == [status |-> status, error |-> error, payload |-> payload]

NoTaskResult == TaskResult("", "", "")

TaskResults ==
    { TaskResult(st, "", "") : st \in PollStatuses \ {"completed", "failed"} }
    \cup { TaskResult("completed", "", r) : r \in {"results-1", "results-2"} }
    \cup { TaskResult("failed", e, "") : e \in {"", "boom"} }

\* What client.get or raise_for_status may raise instead of an answer.
PollErrors == {"ConnectError", "HTTPStatusError"}

NoPolls == [task |-> NoTask, counts |-> [st \in PollStatuses |-> 0], last |-> NoTaskResult]

PollOutcome(kind, value, msg) == [kind |-> kind, value |-> value, msg |-> msg]
PollIdle == PollOutcome("idle", NoTaskResult, <<>>)
PollRunning == PollOutcome("running", NoTaskResult, <<>>)
PollReturned(task_result) == PollOutcome("returned", task_result, <<>>)
PollRaised(msg) == PollOutcome("raised", NoTaskResult, msg)

\* task_result.get('error', 'Unknown error')
ErrorText(task_result) == IF task_result.error = "" THEN "Unknown error" ELSE task_result.error

\* "for _attempt in range(max_polls)": another poll follows n polls.
MorePollsOffByOne(n) == n <= MaxPolls

MorePolls(n) == n < MaxPolls

\* status in ["pending", "running", "processing"]
KeepsPollingUnlessDone(status) == status \notin {"completed", "failed"}

KeepsPolling(status) == status \in WaitingStatuses

\* Lines 99-113: what the loop does with the answer of poll number n.
AfterPoll(task_id, task_result, n) ==
    CASE task_result.status = "completed" -> PollReturned(task_result)
      [] task_result.status = "failed" ->
            PollRaised(<<"Crawl task failed: ", ErrorText(task_result)>>)
      [] task_result.status \notin {"completed", "failed"} ->
            IF KeepsPolling(task_result.status)
            THEN IF MorePolls(n) THEN PollRunning
                 ELSE PollRaised(<<"Task ", task_id, " timed out after ", "30", " seconds">>)
            ELSE PollRaised(<<"Unknown task status: ", task_result.status>>)

notPoll == <<last_request_time, rlVars, cacheVars, callVars, exVars, storeVars, concVars, geoVars, keyVars, normVars, validVars>>

\* _wait_for_task_completion is called for a task.
PollStart(task_id) ==
    /\ poll_out = PollIdle
    /\ poll_out' = IF MorePolls(0) THEN PollRunning
                   ELSE PollRaised(<<"Task ", task_id, " timed out after ", "30", " seconds">>)
    /\ poll_seen' = [poll_seen EXCEPT !.task = task_id]
    /\ UNCHANGED <<now, poll_attempt, notPoll>>

\* One pass of the loop: the sleep, the GET and the handling of its answer.
Poll(task_result) ==
    /\ poll_out = PollRunning
    /\ now' = now + PollInterval
    /\ poll_attempt' = poll_attempt + 1
    /\ poll_seen' = [poll_seen EXCEPT !.counts[task_result.status] = @ + 1,
                                      !.last = task_result]
    /\ poll_out' = AfterPoll(poll_seen.task, task_result, poll_attempt + 1)
    /\ UNCHANGED notPoll

\* One pass of the loop in which the GET raises.
PollFails(error) ==
    /\ poll_out = PollRunning
    /\ now' = now + PollInterval
    /\ poll_attempt' = poll_attempt + 1
    /\ poll_out' = PollRaised(<<error>>)
    /\ UNCHANGED <<poll_seen, notPoll>>

\* ------------------------------------------------------------------------
\* Initial states and specifications
\* ------------------------------------------------------------------------
LimiterInit ==
    /\ last_request_time = None
    /\ locked = FALSE
    /\ waiters = <<>>
    /\ rl_pc = [t \in Tasks |-> "idle"]
    /\ wake_at = [t \in Tasks |-> 0]
    /\ calls = [t \in Tasks |-> 0]
    /\ completions = <<>>
    /\ completers = <<>>

ServiceInit ==
    /\ cache = EmptyDict
    /\ url_to_keys = EmptyDict
    /\ pc = "idle"
    /\ request = NoRequest
    /\ to_crawl = <<>>
    /\ crawled_urls = {}
    /\ next_url = 1
    /\ results = <<>>
    /\ cached_count = 0
    /\ attempted = <<>>
    /\ served = <<>>
    /\ posts = <<>>
    /\ acquires = 0
    /\ started_at = 0
    /\ prev = NoPrev
    /\ nreq = 0

SideIdle ==
    /\ op = NoOp
    /\ last_set = EmptyDict
    /\ geo_cache = [s \in Services |-> EmptyDict]
    /\ submissions = <<>>
    /\ geo_limiter = [s \in Services |-> None]
    /\ geo_calls = <<>>
    /\ mcp_service = NotCreated
    /\ geo_pending = [e \in Services |-> NoCity]
    /\ geo_out = [e \in Services |-> NoGeoOut]
    /\ poll_attempt = 0
    /\ poll_seen = NoPolls
    /\ poll_out = PollIdle

NormIdle == norm_in = NoNormInput /\ norm_out = <<>>

ValidIdle == val_in = NoRequest /\ val_out = "none"

SideInit == SideIdle /\ key_in = NoKeyInput /\ key_out = NoKeys /\ NormIdle /\ ValidIdle

\* Concurrent callers of one RateLimiter.
RLInit ==
    /\ now = 0 /\ LimiterInit /\ ServiceInit /\ SideInit
    /\ ex_in = NoInput /\ ex_out = NoOutput

RLNext ==
    \/ \E t \in Tasks : RLCall(t)
    \/ \E t \in Tasks : RLGrant(t)
    \/ \E t \in Tasks : RLWake(t)
    \/ RLTick

SpecRL == RLInit /\ [][RLNext]_vars

\* The same callers under fair scheduling: the clock advances, a sleep ends
\* once its time has passed, and a released asyncio.Lock wakes its first
\* waiter.  Whether a task calls acquire() again is left open.
RLFairInit == RLInit

RLFairNext == RLNext \/ RLSleepTick

RLFairness ==
    /\ WF_vars(RLTick \/ RLSleepTick)
    /\ \A t \in Tasks : WF_vars(RLGrant(t)) /\ WF_vars(RLWake(t))

SpecRLFair == RLFairInit /\ [][RLFairNext]_vars /\ RLFairness

\* ------------------------------------------------------------------------
\* Concurrent crawl_urls calls on one CrawlingService: every call runs
\* _crawl_single_url for one URL after the other, each awaiting
\* self.rate_limiter.acquire() (line 412) before its POST /crawl (line 420).
\* ------------------------------------------------------------------------
notConc == <<now, last_request_time, rlVars, cacheVars, callVars, exVars, storeVars, geoVars, pollVars, keyVars, normVars, validVars>>

\* The acquire() calls of task t that have returned, and its POSTs.
NAcquired(t) == Cardinality({ i \in 1..Len(completers) : completers[i] = t })
NPosted(t) == Cardinality({ i \in 1..Len(submissions) : submissions[i].task = t })

\* The position in completions of the last acquire() of task t that returned.
LastAcquired(t) ==
    LET mine == { i \in 1..Len(completers) : completers[i] = t } IN
    IF mine = {} THEN 0 ELSE CHOOSE i \in mine : \A j \in mine : j <= i

\* The POST /crawl of line 420 is reached only after the acquire() of
\* line 412 of the same _crawl_single_url run has returned.
AcquireReturnedAlways(t) == TRUE

AcquireReturned(t) == rl_pc[t] = "idle" /\ NAcquired(t) > NPosted(t)

\* Line 412: the next _crawl_single_url run of call t starts once the
\* previous one has submitted.
ConcAcquire(t) ==
    /\ NAcquired(t) = NPosted(t)
    /\ RLCall(t)

\* Lines 420-424: call t submits its URL.
ConcPost(t) ==
    /\ AcquireReturned(t)
    /\ submissions' = Append(submissions, [task |-> t, acquired |-> LastAcquired(t)])
    /\ UNCHANGED notConc

ConcInit == RLInit

ConcNext ==
    \/ \E t \in Tasks : ConcAcquire(t)
    \/ \E t \in Tasks : RLGrant(t)
    \/ \E t \in Tasks : RLWake(t)
    \/ \E t \in Tasks : ConcPost(t)
    \/ RLTick

SpecConc == ConcInit /\ [][ConcNext]_vars

\* ------------------------------------------------------------------------
\* Geocoding requests of one process through its two entry points: the REST
\* router (routers/geocoding.py) and the MCP tool
\* (mcp_integration/tools/geocoding.py). Each GeocodingService builds its
\* own RateLimiter and GeocodingCache (services/geocoding.py, 46-47).
\* ------------------------------------------------------------------------
MaxGeoCalls == 3    \* upstream geocoding calls in a run
GeoMaxTime == 3     \* last tick of the clock in the geocoding runs

notGeo == <<last_request_time, rlVars, cacheVars, callVars, exVars, op, last_set, concVars, pollVars, keyVars, normVars, validVars>>

\* The router's module-level "geocoding_service = GeocodingService()".
RouterService == "rest"

\* get_geocoding_service() of the MCP tools: the instance of its own module
\* global, constructed on first use.
GetGeocodingService == IF mcp_service = NotCreated THEN "mcp" ELSE mcp_service

ServiceOf(entry) == IF entry = "rest" THEN RouterService ELSE GetGeocodingService

Pending == { e \in Services : geo_pending[e] # NoCity }

\* str.strip() on the modelled city names.
Strip(city) == IF city = " paris " THEN "paris" ELSE city

\* The city the entry point hands to geocode_city: the router passes it as
\* it is (line 109), the MCP tool passes city.strip() (line 59).
AskedCity(entry, city) == IF entry = "rest" THEN city ELSE Strip(city)

\* What Nominatim answers: a list of candidates, best first, or a failure.
Locations == {"loc-1", "loc-2"}
GeoAnswer(kind, candidates) == [kind |-> kind, results |-> candidates]
GeoAnswers ==
    { GeoAnswer("ok", r) : r \in {<<>>, <<"loc-1">>, <<"loc-2", "loc-1">>} }
    \cup { GeoAnswer(k, <<>>) : k \in {"http_error", "timeout"} }

\* geocode_city up to "await self.rate_limiter.acquire()": a cache hit
\* returns the stored response with cached = True at once, a miss goes on
\* to the limiter.
GeoRequest(entry, city) ==
    /\ geo_pending[entry] = NoCity
    /\ Len(geo_calls) + Cardinality(Pending) < MaxGeoCalls
    /\ LET service == ServiceOf(entry)
           asked == AskedCity(entry, city)
           cached == GeoCacheGet(geo_cache[service], asked, now)
       IN /\ mcp_service' = IF entry = "rest" THEN mcp_service ELSE service
          /\ geo_cache' = [geo_cache EXCEPT ![service] = cached.store]
          /\ IF cached.found
             THEN /\ geo_out' = [geo_out EXCEPT ![entry] =
                        GeoOut("response", asked, geo_cache[service][cached.key].data.city,
                               geo_cache[service][cached.key].data.location, TRUE, "")]
                  /\ UNCHANGED geo_pending
             ELSE /\ geo_pending' = [geo_pending EXCEPT ![entry] = asked]
                  /\ geo_out' = [geo_out EXCEPT ![entry] = NoGeoOut]
    /\ UNCHANGED <<now, geo_limiter, geo_calls, notGeo>>

GeoResultSwallowsErrors(city, answer) ==
    IF answer.kind = "ok" /\ answer.results # <<>>
    THEN GeoOut("response", city, city, answer.results[1], FALSE, "")
    ELSE GeoOut("absent", city, NoCity, "", FALSE, "")

\* What geocode_city does with the answer of Nominatim (lines 101-167).
GeoResult(city, answer) ==
    CASE answer.kind = "http_error" ->
            GeoOut("raised", city, NoCity, "", FALSE, "Nominatim API HTTP error: 503")
      [] answer.kind = "timeout" ->
            GeoOut("raised", city, NoCity, "", FALSE, "Nominatim API timeout")
      [] answer.kind = "ok" /\ answer.results = <<>> ->
            GeoOut("absent", city, NoCity, "", FALSE, "")
      [] answer.kind = "ok" /\ answer.results # <<>> ->
            GeoOut("response", city, city, answer.results[1], FALSE, "")

\* acquire() of the service's own limiter returns, and the request calls
\* Nominatim; a result found is stored in the service's own cache.
GeoUpstream(entry, answer) ==
    /\ geo_pending[entry] # NoCity
    /\ LET service == ServiceOf(entry)
           city == geo_pending[entry]
           out == GeoResult(city, answer)
       IN /\ SleepTime(now, geo_limiter[service]) = 0
          /\ geo_limiter' = [geo_limiter EXCEPT ![service] = now]
          /\ geo_calls' = Append(geo_calls, [service |-> service, entry |-> entry, at |-> now, city |-> city, answer |-> answer])
          /\ geo_cache' = IF out.kind = "response"
                          THEN [geo_cache EXCEPT ![service] =
                                  GeoCacheSet(@, city, [city |-> out.city, location |-> out.location], now)]
                          ELSE geo_cache
          /\ geo_out' = [geo_out EXCEPT ![entry] = out]
    /\ geo_pending' = [geo_pending EXCEPT ![entry] = NoCity]
    /\ UNCHANGED <<now, mcp_service, notGeo>>

GeoTick ==
    /\ now < GeoMaxTime
    /\ now' = now + 1
    /\ UNCHANGED <<geoVars, geo_cache, notGeo>>

GeoInit == RLInit

GeoNext ==
    \/ \E entry \in Services, city \in Cities : GeoRequest(entry, city)
    \/ \E entry \in Services, answer \in GeoAnswers : GeoUpstream(entry, answer)
    \/ GeoTick

SpecGeo == GeoInit /\ [][GeoNext]_vars

\* One call of _wait_for_task_completion.
PollInit == RLInit

PollNext ==
    \/ \E task_id \in TaskIds : PollStart(task_id)
    \/ \E task_result \in TaskResults : Poll(task_result)
    \/ \E error \in PollErrors : PollFails(error)

SpecPoll == PollInit /\ [][PollNext]_vars

\* One crawl_urls call on a fresh crawling service, for every request.
Init ==
    /\ now = 0 /\ LimiterInit /\ ServiceInit /\ SideInit
    /\ ex_in = NoInput /\ ex_out = NoOutput

Next ==
    \/ \E r \in Requests : StartCall(r)
    \/ RecursiveStep
    \/ SimpleStep
    \/ Finish

Spec == Init /\ [][Next]_vars

\* The crawling service serving crawl_urls calls one after the other, so
\* that a call finds what earlier calls left in the cache.
SessionInit == Init

SessionNext ==
    \/ \E r \in SessionRequests : StartCall(r)
    \/ \E r \in SessionRequests : StartAgain(r)
    \/ RecursiveStep
    \/ SimpleStep
    \/ Finish
    \/ Tick

SpecSession == SessionInit /\ [][SessionNext]_vars

\* Recursive calls one after the other on one seed that follow both kinds
\* of links, with every page budget and cache mode, so that the budget ends
\* some crawls and the queue others, on a cold cache and on what the call
\* before left.
TermRequests ==
    { r \in Requests :
        /\ r.urls = <<RootA>>
        /\ r.follow_internal_links /\ r.follow_external_links
        /\ r.max_depth > 1 }

TermInit == Init

TermNext ==
    \/ \E r \in TermRequests : StartCall(r)
    \/ \E r \in TermRequests : StartAgain(r)
    \/ RecursiveStep
    \/ Finish

\* A call in progress runs on: each awaited single-page crawl returns, so
\* the event loop resumes the coroutine and the loop iteration or the
\* return that is due is taken.  Whether another call arrives is left open.
TermFairness == WF_vars(RecursiveStep) /\ WF_vars(Finish)

SpecTerm == TermInit /\ [][TermNext]_vars /\ TermFairness

\* The single-page executor on one input.
ExecInit ==
    /\ now = 0 /\ LimiterInit /\ ServiceInit /\ SideInit
    /\ ex_in \in ExecInputs /\ ex_out = NoOutput

ExecNext ==
    \/ ExecRun
    \/ ExecStore
    \/ \E depth \in 0..MaxExecDepth : ExecServe(depth)

SpecExec == ExecInit /\ [][ExecNext]_vars

\* _get_key on pairs of requests.
KeyInit ==
    /\ now = 0 /\ LimiterInit /\ ServiceInit /\ SideIdle
    /\ ex_in = NoInput /\ ex_out = NoOutput
    /\ key_in \in KeyInputs /\ key_out = NoKeys /\ NormIdle /\ ValidIdle

KeyNext == KeyRun

SpecKey == KeyInit /\ [][KeyNext]_vars

\* _normalize_url on pairs of URL strings.
NormInit ==
    /\ now = 0 /\ LimiterInit /\ ServiceInit /\ SideIdle
    /\ ex_in = NoInput /\ ex_out = NoOutput
    /\ key_in = NoKeyInput /\ key_out = NoKeys
    /\ norm_in \in NormInputs /\ norm_out = <<>> /\ ValidIdle

NormNext == NormalizeRun

SpecNorm == NormInit /\ [][NormNext]_vars

\* CrawlRequest validation on every combination of field values, and the
\* crawl of each accepted request on a fresh service.
ValidInit ==
    /\ now = 0 /\ LimiterInit /\ ServiceInit /\ SideIdle
    /\ ex_in = NoInput /\ ex_out = NoOutput
    /\ key_in = NoKeyInput /\ key_out = NoKeys /\ NormIdle
    /\ val_in \in ValidInputs /\ val_out = "none"

ValidNext ==
    \/ ValidateRun
    \/ ValidCall
    \/ RecursiveStep
    \/ SimpleStep
    \/ Finish

SpecValid == ValidInit /\ [][ValidNext]_vars

\* The cache stores under any sequence of operations.
CacheInit == Init

CacheNext ==
    \/ \E url \in CacheUrls, options \in CacheOptions, data \in CacheData :
          CSet(url, options, data)
    \/ \E url \in CacheUrls, options \in CacheOptions : CGet(url, options)
    \/ CCleanupExpired
    \/ CClear
    \/ \E url \in CacheUrls : CInvalidateUrl(url)
    \/ \E city \in Cities, data \in CacheData : GSet(city, data)
    \/ \E city \in Cities : GGet(city)
    \/ GCleanupExpired
    \/ GClear
    \/ CacheTick

SpecCache == CacheInit /\ [][CacheNext]_vars

\* C1: any two completions of acquire() on one limiter are at least
\* time_window apart, so the k-th completion after a given one is at least
\* k * time_window later, under every interleaving of the callers.
C1_MinInterval ==
    \A i \in 1..Len(completions) : \A j \in 1..Len(completions) :
        i < j => completions[j] - completions[i] >= (j - i) * TimeWindow

\* Witness of C1: two tasks overlapped in acquire() (one queued for the lock
\* while the other slept) after at least two calls have completed.
C1_Witness ==
    /\ Len(completions) >= 2
    /\ \E t \in Tasks : rl_pc[t] = "waiting"
    /\ \E t \in Tasks : rl_pc[t] = "sleeping"

\* C2: the single-page executor never raises, and every failure it reports
\* is a result with success = FALSE and a non-empty error_message (the claim
\* as stated, for every upstream behaviour including an exception whose
\* message is empty).
C2_NeverRaises ==
    ex_out.done =>
        /\ ~ex_out.raised
        /\ ~ex_out.result.success => ex_out.result.error_message # <<>>

\* C3: a failure local to one URL never aborts the crawl (the claim as
\* stated): crawl_urls never raises, and the response it returns holds one
\* result for every URL attempted, fetched upstream or served from the cache.
C3_NeverAborts ==
    /\ pc # "raised"
    /\ pc = "done" =>
        /\ Len(results) = Len(posts) + cached_count
        /\ IsRecursive(request) => Cardinality(crawled_urls) = Len(results)
        /\ ~IsRecursive(request) => Len(results) = Len(request.urls)

\* The URLs of the frontier items behind the results.
AttemptedUrls == { attempted[i].url_str : i \in 1..Len(attempted) }
AttemptedPages == { attempted[i].normalized_url : i \in 1..Len(attempted) }
PostedUrls == { posts[i] : i \in 1..Len(posts) }
QueuedPages == { to_crawl[i].normalized_url : i \in 1..Len(to_crawl) }

\* C4: in every state of a recursive crawl and in what it returns,
\* len(results) <= max_pages; what is left in the queue when the budget is
\* reached is dropped: only URLs with a result are marked visited, only
\* attempted URLs were submitted upstream, and there is one result per
\* attempted URL.
C4_PageBudget ==
    (IsRecursive(request) /\ pc \in {"recursive", "done"}) =>
        /\ Len(results) <= request.max_pages
        /\ Len(attempted) = Len(results)
        /\ crawled_urls = AttemptedPages
        /\ PostedUrls \subseteq AttemptedUrls

\* Witness of C4: a recursive crawl returned with the budget used up while
\* the queue still held a page that was never visited.
C4_Witness ==
    /\ pc = "done" /\ IsRecursive(request)
    /\ Len(results) = request.max_pages
    /\ QueuedPages \ crawled_urls # {}

\* C5: in a recursive crawl no result and no queued item is deeper than
\* max_depth - 1, whether the page was fetched or served from the cache; with
\* max_depth = 2 and a budget that is not reached, following internal links
\* from the root whose page links to /p, which links to /q, the crawl returns
\* the root at depth 0 and /p at depth 1 only.
C5_DepthBound ==
    (IsRecursive(request) /\ pc \in {"recursive", "done", "raised"}) =>
        /\ \A i \in 1..Len(results) : results[i].depth <= request.max_depth - 1
        /\ \A i \in 1..Len(to_crawl) : to_crawl[i].depth <= request.max_depth - 1
        /\ (/\ pc = "done" /\ request.urls = <<RootA>> /\ request.max_depth = 2
            /\ request.max_pages = MaxPages
            /\ request.follow_internal_links /\ ~request.follow_external_links
            /\ \A i \in 1..Len(results) : results[i].success)
           => /\ Len(results) = 2
              /\ attempted[1].normalized_url = NormalizeUrl(RootA)
              /\ results[1].depth = 0
              /\ attempted[2].normalized_url = NormalizeUrl(PageP)
              /\ results[2].depth = 1

\* Witness of C5: a page at depth max_depth - 1 that has links was served
\* from the cache and the crawl ended without following them.
C5_Witness ==
    /\ pc = "done" /\ request.follow_internal_links
    /\ \E i \in 1..Len(results) :
        /\ served[i]
        /\ results[i].depth = request.max_depth - 1
        /\ results[i].internal_links # <<>>

\* The page a URL denotes: its scheme and host in lower case, its path
\* without trailing slash and its query, whatever its fragment.
Page(url) ==
    [scheme |-> Lower(url.scheme), netloc |-> Lower(url.netloc),
     path |-> url.path, query |-> url.query]

\* C6: within one recursive crawl each page gets at most one result and at
\* most one upstream submission, however often it is enqueued; the seed
\* whose page links to /p, /p#x and /p/ yields 2 results when only internal
\* links are followed to depth 1.
C6_OncePerPage ==
    IsRecursive(request) =>
        /\ \A i, j \in 1..Len(attempted) :
              i # j => Page(attempted[i].url_str) # Page(attempted[j].url_str)
        /\ \A i, j \in 1..Len(posts) : i # j => Page(posts[i]) # Page(posts[j])
        /\ (/\ pc = "done" /\ request.urls = <<RootA>> /\ request.max_depth = 2
            /\ request.max_pages = MaxPages
            /\ request.follow_internal_links /\ ~request.follow_external_links
            /\ \A i \in 1..Len(results) : results[i].success)
           => Len(results) = 2

\* Witness of C6: a result exists for a page, and a link to the same page
\* that differs in its fragment is at the head of the queue.
C6_Witness ==
    /\ pc = "recursive" /\ to_crawl # <<>>
    /\ Head(to_crawl).url_str.fragment # ""
    /\ Head(to_crawl).depth > 0
    /\ Head(to_crawl).normalized_url \in AttemptedPages

\* The URLs the links of the i-th result point to, resolved as the loop
\* resolves them.
LinkTargets(i) ==
    { UrlJoin(attempted[i].url_str, results[i].internal_links[k]) :
        k \in 1..Len(results[i].internal_links) }
    \cup
    { results[i].external_links[k] : k \in 1..Len(results[i].external_links) }

SeedUrls == { request.urls[i] : i \in 1..Len(request.urls) }

\* C7: in a recursive crawl the result of a seed has depth 0 and the result
\* of a link found on a page whose result has depth d has depth d + 1,
\* whether the result was fetched or served from the cache, whatever depth
\* the cached entry was stored with.
C7_DepthAssignment ==
    (IsRecursive(request) /\ pc \in {"recursive", "done", "raised"}) =>
        \A i \in 1..Len(results) :
            /\ results[i].depth = attempted[i].depth
            /\ results[i].depth = 0 => attempted[i].url_str \in SeedUrls
            /\ results[i].depth > 0 =>
                  \E j \in 1..(i - 1) :
                      /\ results[j].depth + 1 = results[i].depth
                      /\ attempted[i].url_str \in LinkTargets(j)

\* Witness of C7: the seed of the previous call, fetched and stored with
\* depth 0, is served from the cache as a link of the current recursive
\* crawl, at depth 1.
C7_Witness ==
    /\ pc = "done" /\ IsRecursive(request)
    /\ prev.valid /\ prev.cached_count = 0 /\ prev.all_success
    /\ \E i \in 1..Len(results) :
        /\ served[i]
        /\ results[i].depth = 1
        /\ attempted[i].url_str = prev.request.urls[1]

\* The current call repeats the previous one, which fetched everything and
\* succeeded, before the TTL has elapsed since the previous call started.
RepeatsWithinTtl(mode_before, mode_now) ==
    /\ pc = "done" /\ prev.valid
    /\ prev.request.cache_mode = mode_before
    /\ request = [prev.request EXCEPT !.cache_mode = mode_now]
    /\ prev.cached_count = 0 /\ prev.all_success
    /\ now - prev.started_at < Ttl

\* C8: after a crawl with cache_mode = "enabled" that succeeded and reported
\* cachedResults = 0, the identical call made before the TTL elapses serves
\* every result from the cache (cachedResults = 1 for one URL) and makes no
\* upstream submission and no rate-limiter acquisition.
C8_CacheHitFlow ==
    RepeatsWithinTtl("enabled", "enabled") =>
        /\ Len(results) = prev.total
        /\ cached_count = Len(results)
        /\ ~IsRecursive(request) => cached_count = 1
        /\ posts = <<>>
        /\ acquires = 0

\* Witness of C8: the second of two identical simple calls returned, later
\* than the first one started, with its URL served from the cache.
C8_Witness ==
    /\ RepeatsWithinTtl("enabled", "enabled")
    /\ ~IsRecursive(request)
    /\ now > prev.started_at
    /\ served = <<TRUE>>

\* C9: with cache_mode = "bypass" the cache is never read: no result is
\* served from it and every attempted URL is submitted upstream, whatever
\* the cache holds; the successful results are stored, so that the same call
\* with cache_mode = "enabled", made before the TTL elapses, is served from
\* the cache.
C9_Bypass ==
    /\ (request.cache_mode = "bypass" /\ pc \in {"simple", "recursive", "done"}) =>
          /\ cached_count = 0
          /\ \A i \in 1..Len(served) : ~served[i]
          /\ Len(posts) = Len(attempted)
          /\ \A i \in 1..Len(posts) : posts[i] = attempted[i].url_str
    /\ RepeatsWithinTtl("bypass", "enabled") =>
          /\ cached_count = Len(results)
          /\ Len(results) = prev.total
          /\ posts = <<>>

\* Witness of C9: a bypass call fetched its URL although the call before
\* it, the same but for cache_mode = "enabled", had stored that URL's result
\* less than the TTL earlier.
C9_Witness ==
    /\ request.cache_mode = "bypass" /\ pc = "done"
    /\ prev.valid /\ prev.all_success
    /\ prev.request = [request EXCEPT !.cache_mode = "enabled"]
    /\ now - prev.started_at < Ttl
    /\ Len(posts) >= 1
    /\ posts[1] = request.urls[1]

\* C10: with cache_mode = "disabled" the cache is neither used nor written
\* (the claim as stated): no step of a disabled-mode crawl serves a result
\* from the cache, and none changes what the cache holds.
C10_DisabledUntouched ==
    [][(request.cache_mode = "disabled" /\ pc \in {"simple", "recursive"})
        => (cached_count' = 0 /\ cache' = cache)]_vars

\* The store an operation was called on, and its TTL.
StoreOf(o) == IF o.store = "crawl" THEN cache ELSE geo_cache["rest"]
TtlOf(o) == IF o.store = "crawl" THEN Ttl ELSE GeoTtl

\* C11: in both cache stores, get on a key whose entry has age >= TTL
\* (age = TTL included) returns absent and removes the entry; an entry with
\* age < TTL is returned and kept (the claim as stated).
C11_LazyExpiry ==
    (op.name = "get" /\ op.held) =>
        IF now - op.stored_at >= TtlOf(op)
        THEN op.ret = Absent /\ op.key \notin DOMAIN StoreOf(op)
        ELSE op.ret # Absent /\ op.key \in DOMAIN StoreOf(op)

\* C11 for the geocoding store alone.
C11_GeoLazyExpiry == op.store = "geo" => C11_LazyExpiry

\* C12: after set(k, v) on the crawl cache, get(k) returns v as long as
\* less than the TTL has passed since that set, whatever get, cleanup_expired
\* and set calls on it or on other keys came in between; a set on a key the
\* store holds replaces the value, restarts the entry's age at zero and
\* leaves size() as it was.
C12_RoundTrip ==
    /\ (/\ op.name = "get" /\ op.store = "crawl"
        /\ op.key \in DOMAIN last_set
        /\ now - last_set[op.key].at < Ttl)
       => op.ret = last_set[op.key].data
    /\ (op.name = "set" /\ op.store = "crawl") =>
          /\ cache[op.key] = [data |-> op.ret, timestamp |-> now]
          /\ Cardinality(DOMAIN cache) = op.count + (IF op.held THEN 0 ELSE 1)

\* Witness of C12: a get returned "v2" from an entry whose age had been
\* restarted by a set later than the first tick, at a time by which an
\* entry stored at the start would have expired.
C12_Witness ==
    /\ op.name = "get" /\ op.store = "crawl"
    /\ op.ret = "v2"
    /\ op.stored_at > 0 /\ now - op.stored_at < Ttl
    /\ now > Ttl
    /\ Cardinality(DOMAIN last_set) = 1

\* The two requests agree on the options that affect the result: the four
\* flags and, when screenshots are captured, the three screenshot fields.
AgreeOnOptions(a, b) ==
    /\ Diff(a, b) \cap {"markdown_only", "scrape_internal_links",
                        "scrape_external_links", "capture_screenshots"} = {}
    /\ a.capture_screenshots =>
          Diff(a, b) \cap {"screenshot_width", "screenshot_height",
                           "screenshot_wait_for"} = {}

\* The two requests agree on all seven fields, whether or not screenshots
\* are captured.
AgreeOnAllSeven(a, b) ==
    Diff(a, b) \cap {"markdown_only", "scrape_internal_links",
                     "scrape_external_links", "capture_screenshots",
                     "screenshot_width", "screenshot_height",
                     "screenshot_wait_for"} = {}

\* C13, amended: for one URL two requests get the same cache key if and
\* only if they agree on markdown_only, scrape_internal_links,
\* scrape_external_links, capture_screenshots and, when capture_screenshots
\* is true, on the three screenshot_* fields; so two requests that capture
\* screenshots and differ only in screenshot_width get different keys, and
\* two that differ only in follow_internal_links, max_depth or cache_mode
\* get the same key.
C13_KeySensitivity ==
    key_out.done => ((key_out.a = key_out.b) <=> AgreeOnOptions(key_in.a, key_in.b))

\* Witness of C13: two requests capturing screenshots that differ in
\* screenshot_width only were keyed, and their keys differ.
C13_Witness ==
    /\ key_out.done
    /\ key_in.a.capture_screenshots
    /\ Diff(key_in.a, key_in.b) = {"screenshot_width"}
    /\ key_out.a # key_out.b

\* C13 as stated: the keys are equal if and only if the requests agree on
\* all seven fields, so that any two requests differing only in
\* screenshot_width get different keys.
C13_AsStated ==
    key_out.done => ((key_out.a = key_out.b) <=> AgreeOnAllSeven(key_in.a, key_in.b))

\* The cache keys stored for the URL that url normalizes to.
KeysOfUrl(c, url) == { k \in DOMAIN c : k.url = CacheNormalizeUrl(url) }

\* C14: invalidate_url(url) removes every entry cached for that URL,
\* returns the number of entries it removed (the decrease of size()) and
\* leaves the entries of every other URL as they were, after any sequence
\* of set, get, cleanup_expired, clear and invalidate_url calls with time
\* passing (the claim as stated).
C14_InvalidateUrl ==
    [][op'.name = "invalidate_url" =>
         /\ KeysOfUrl(cache', op'.url) = {}
         /\ op'.count = Cardinality(DOMAIN cache) - Cardinality(DOMAIN cache')
         /\ \A k \in DOMAIN cache \ KeysOfUrl(cache, op'.url) :
               k \in DOMAIN cache' /\ cache'[k] = cache[k]]_vars

\* The hosts of the seeds of the current call.
SeedHosts == { request.urls[i].netloc : i \in 1..Len(request.urls) }

InternalOnly(r) == r.follow_internal_links /\ ~r.follow_external_links

\* C15: in a crawl that follows internal links only, every result and every
\* queued item has the host of the seed it was reached from, and that seed
\* is a seed of the call: a link listed as internal that resolves to another
\* host is never enqueued and never gets a result.
C15_SameHostOnly ==
    (InternalOnly(request) /\ pc \in {"recursive", "done", "raised"}) =>
        /\ \A i \in 1..Len(attempted) :
              /\ attempted[i].url_str.netloc = attempted[i].base_domain.netloc
              /\ attempted[i].base_domain.netloc \in SeedHosts
              /\ results[i].url.netloc \in SeedHosts
        /\ \A i \in 1..Len(to_crawl) :
              /\ to_crawl[i].url_str.netloc = to_crawl[i].base_domain.netloc
              /\ to_crawl[i].base_domain.netloc \in SeedHosts

\* Witness of C15: a crawl that follows internal links only ended below its
\* page budget after expanding a page whose internal links include one to
\* another host.
C15_Witness ==
    /\ pc = "done" /\ InternalOnly(request)
    /\ Len(results) < request.max_pages
    /\ \E i \in 1..Len(results) :
        /\ results[i].success
        /\ results[i].depth + 1 < request.max_depth
        /\ \E k \in 1..Len(results[i].internal_links) :
              UrlJoin(attempted[i].url_str, results[i].internal_links[k]).netloc
                  \notin SeedHosts

ExternalOnly(r) == r.follow_external_links /\ ~r.follow_internal_links

\* C16: in a crawl that follows external links only, no result at depth 1
\* or deeper has the host of a seed of the call, for max_depth 1..3 and
\* every link graph, including one where an external page links back to the
\* seed's host.
C16_NeverBackToSeedHost ==
    (ExternalOnly(request) /\ pc \in {"recursive", "done", "raised"}) =>
        \A i \in 1..Len(results) :
            results[i].depth >= 1 => results[i].url.netloc \notin SeedHosts

\* C17: concurrent crawl_urls calls on one CrawlingService share one rate
\* budget: every POST /crawl follows an acquire() of its own call on the one
\* limiter that returned and that no other POST used, and the acquisitions
\* behind any two POSTs, of one call or of two, are at least the time window
\* apart.
C17_SharedBudget ==
    \A i \in 1..Len(submissions) :
        /\ submissions[i].acquired \in 1..Len(completions)
        /\ completers[submissions[i].acquired] = submissions[i].task
        /\ \A j \in 1..Len(submissions) :
              i # j =>
                /\ submissions[i].acquired # submissions[j].acquired
                /\ \/ completions[submissions[i].acquired]
                        - completions[submissions[j].acquired] >= TimeWindow
                   \/ completions[submissions[j].acquired]
                        - completions[submissions[i].acquired] >= TimeWindow

\* Witness of C17: two calls that asked for the limiter at the same time
\* have both submitted, the second acquisition exactly one time window after
\* the first.
C17_Witness ==
    \E i, j \in 1..Len(submissions) :
        /\ submissions[i].task # submissions[j].task
        /\ completions[submissions[j].acquired]
              = completions[submissions[i].acquired] + TimeWindow
        /\ completions[submissions[i].acquired] = 0

\* C18: every geocoding request of the process, through the REST router or
\* through the MCP tool, uses the same GeocodingCache and the same
\* RateLimiter, so that no two upstream geocoding calls of the process are
\* less than the time window (1 second) apart.
C18_OneLimiterPerProcess ==
    \A i, j \in 1..Len(geo_calls) :
        /\ geo_calls[i].service = geo_calls[j].service
        /\ i < j => geo_calls[j].at - geo_calls[i].at >= TimeWindow

\* The polls that reported pending, running or processing.
WaitingPolls ==
    poll_seen.counts["pending"] + poll_seen.counts["running"] + poll_seen.counts["processing"]

\* C19: whatever the task endpoint answers, _wait_for_task_completion makes
\* at most 30 polls and has returned or raised once 30 are made; when all 30
\* polls report pending, running or processing it raises the timeout failure
\* that names the task id.
C19_PollLoopTerminates ==
    /\ poll_attempt <= MaxPolls
    /\ poll_attempt = MaxPolls => poll_out.kind \in {"returned", "raised"}
    /\ WaitingPolls = MaxPolls =>
          /\ poll_out.kind = "raised"
          /\ poll_out.msg =
                <<"Task ", poll_seen.task, " timed out after ", "30", " seconds">>
          /\ poll_seen.task \in TaskIds

\* Witness of C19: 30 polls, reporting each of pending, running and
\* processing, ended in a raised failure.
C19_Witness ==
    /\ WaitingPolls = MaxPolls
    /\ \A st \in WaitingStatuses : poll_seen.counts[st] > 0
    /\ poll_out.kind = "raised"

\* C20: a poll is made only while no terminal answer was observed; a poll
\* that observes pending, running or processing before the 30th keeps the
\* loop polling; one that observes completed returns that answer; one that
\* observes failed raises with the upstream error text; one that observes
\* any other status raises the unknown-status failure.
C20_StatusHandling ==
    [][poll_attempt' # poll_attempt =>
          /\ poll_out.kind = "running"
          /\ poll_seen.counts["completed"] + poll_seen.counts["failed"]
                + poll_seen.counts["cancelled"] + poll_seen.counts["None"] = 0
          /\ poll_seen' # poll_seen =>
                LET task_result == poll_seen'.last IN
                /\ poll_seen'.counts[task_result.status]
                      = poll_seen.counts[task_result.status] + 1
                /\ (task_result.status \in WaitingStatuses /\ poll_attempt' < MaxPolls)
                      => poll_out'.kind = "running"
                /\ task_result.status = "completed"
                      => /\ poll_out'.kind = "returned"
                         /\ poll_out'.value = task_result
                /\ task_result.status = "failed"
                      => /\ poll_out'.kind = "raised"
                         /\ poll_out'.msg = <<"Crawl task failed: ",
                                IF task_result.error = "" THEN "Unknown error"
                                ELSE task_result.error>>
                /\ task_result.status \notin WaitingStatuses \cup {"completed", "failed"}
                      => /\ poll_out'.kind = "raised"
                         /\ poll_out'.msg = <<"Unknown task status: ", task_result.status>>
    ]_vars

\* Witness of C20: after polls that reported a waiting status, a poll
\* observed a status outside the known ones and the call raised.
C20_Witness ==
    /\ WaitingPolls > 0
    /\ poll_seen.last.status = "cancelled"
    /\ poll_out.kind = "raised"

\* A city name up to case and surrounding whitespace.
CityName(city) == IF city \in {"Paris", " paris ", "paris"} THEN "paris" ELSE city

\* The entries of a geocoding cache stored for a city less than the TTL ago.
FreshFor(c, city) ==
    { k \in DOMAIN c : /\ CityName(c[k].data.city) = CityName(city)
                        /\ now - c[k].timestamp < GeoTtl }

\* C21: a geocode_city call for a city stored (up to case and surrounding
\* whitespace) less than the TTL ago returns the stored location with
\* cached = true, without acquiring the limiter or calling upstream, and
\* only such a call does; a call that misses goes through the limiter to
\* one upstream call, and when candidates come back it returns the first
\* with cached = false and stores it.
C21_CacheHitOrUpstream ==
    [][\A e \in Services :
        LET c == geo_cache[ServiceOf(e)] IN
        /\ (geo_pending[e] = NoCity /\ geo_pending'[e] # NoCity) =>
              /\ FreshFor(c, geo_pending'[e]) = {}
              /\ geo_calls' = geo_calls /\ geo_limiter' = geo_limiter
        /\ (geo_out'[e] # geo_out[e] /\ geo_out'[e].cached) =>
              /\ geo_out'[e].kind = "response"
              /\ \E k \in FreshFor(c, geo_out'[e].asked) :
                    geo_out'[e].location = c[k].data.location
              /\ geo_calls' = geo_calls /\ geo_limiter' = geo_limiter
              /\ geo_pending'[e] = NoCity
        /\ (geo_pending[e] # NoCity /\ geo_pending'[e] = NoCity) =>
              LET call == geo_calls'[Len(geo_calls')]
                  stored == FreshFor(geo_cache', geo_pending[e]) IN
              /\ geo_calls' = Append(geo_calls, call)
              /\ call.entry = e /\ call.at = now
              /\ geo_limiter'[call.service] = now
              /\ geo_out'[e].asked = geo_pending[e]
              /\ ~geo_out'[e].cached
              /\ (call.answer.kind = "ok" /\ call.answer.results # <<>>) =>
                    /\ geo_out'[e].kind = "response"
                    /\ geo_out'[e].location = call.answer.results[1]
                    /\ \E k \in DOMAIN geo_cache'[call.service] :
                          /\ CityName(geo_cache'[call.service][k].data.city)
                                = CityName(geo_pending[e])
                          /\ geo_cache'[call.service][k].data.location
                                = call.answer.results[1]
                          /\ geo_cache'[call.service][k].timestamp = now
    ]_vars

\* Witness of C21: a request is answered from the cache with what an
\* earlier request, spelled differently, got as the first of two candidates.
C21_Witness ==
    \E e \in Services :
        /\ geo_out[e].kind = "response" /\ geo_out[e].cached
        /\ geo_out[e].asked # geo_out[e].city
        /\ geo_out[e].location = "loc-2"
        /\ \E i \in 1..Len(geo_calls) : Len(geo_calls[i].answer.results) = 2

\* C22: when upstream answers with an empty list geocode_city returns
\* absent and raises nothing; when upstream fails with an HTTP error or a
\* timeout the failure is raised to the caller, never turned into absent; in
\* both cases the geocoding caches are left as they were and hold nothing
\* for that city, so that the next request for it calls upstream again.
C22_FailureSplit ==
    [][Len(geo_calls') > Len(geo_calls) =>
        LET call == geo_calls'[Len(geo_calls')]
            out == geo_out'[call.entry] IN
        /\ (call.answer.kind = "ok" /\ call.answer.results = <<>>) =>
              /\ out.kind = "absent"
              /\ geo_cache' = geo_cache
              /\ FreshFor(geo_cache'[call.service], call.city) = {}
        /\ call.answer.kind \in {"http_error", "timeout"} =>
              /\ out.kind = "raised"
              /\ out.msg = IF call.answer.kind = "timeout"
                           THEN "Nominatim API timeout"
                           ELSE "Nominatim API HTTP error: 503"
              /\ geo_cache' = geo_cache
              /\ FreshFor(geo_cache'[call.service], call.city) = {}
    ]_vars

\* Witness of C22: a request whose upstream call failed or found nothing
\* was followed by a request for the same city through the same entry
\* point, which called upstream again.
C22_Witness ==
    \E i, j \in 1..Len(geo_calls) :
        /\ i < j
        /\ geo_calls[i].entry = geo_calls[j].entry
        /\ geo_calls[i].city = geo_calls[j].city
        /\ geo_calls[i].answer.kind = "http_error"
        /\ geo_calls[j].answer = GeoAnswer("ok", <<>>)
        /\ geo_out[geo_calls[j].entry].kind = "absent"

\* C23: a step of a crawl that serves a URL from the cache is a read: it
\* leaves the value stored under every key of the crawl cache, its depth
\* included, as it was.
C23_ReadsLeaveEntries ==
    [][(Len(served') = Len(served) + 1 /\ served'[Len(served')]) =>
          \A k \in DOMAIN cache \cap DOMAIN cache' : cache'[k].data = cache[k].data
    ]_vars

\* C24: when neither follow_internal_links nor follow_external_links is
\* set, every result of crawl_urls has depth 0, fetched or served from the
\* cache, whatever earlier calls stored.
C24_SimpleDepthZero ==
    (~IsRecursive(request) /\ pc \in {"simple", "done", "raised"}) =>
        \A i \in 1..Len(results) : results[i].depth = 0

\* The elements of a sequence.
Range(seq) == { seq[i] : i \in 1..Len(seq) }

\* The frontier items one followed link away from item in the page graph
\* Web, for the link kinds the request follows.
LinkedItems(item, r) ==
    LET links == Web(item.normalized_url) IN
    (IF r.follow_internal_links
     THEN Range(InternalItems(item, Hrefs(links.internal), {})) ELSE {})
    \cup
    (IF r.follow_external_links
     THEN Range(ExternalItems(item, Hrefs(links.external), {})) ELSE {})

\* The frontier items at most n followed links away from the items in S.
RECURSIVE ItemsWithin(_, _, _)
ItemsWithin(S, r, n) ==
    IF n = 0 THEN S
    ELSE ItemsWithin(S \cup UNION { LinkedItems(it, r) : it \in S }, r, n - 1)

\* The pages reachable from the seeds of r through at most n followed links.
ReachablePages(r, n) ==
    { it.normalized_url : it \in ItemsWithin(Range(SeedItems(r.urls)), r, n) }

\* More links than any path without a repeated page has in the modelled
\* graph: reachable within GraphDepth links is reachable at all.
GraphDepth == MaxDepth + 1

C26_BreadthFirst ==
    (IsRecursive(request) /\ pc \in {"recursive", "done", "raised"}) =>
        /\ \A i, j \in 1..Len(results) :
              i < j => results[i].depth <= results[j].depth
        /\ \A i, j \in 1..Len(to_crawl) :
              i < j => to_crawl[i].depth <= to_crawl[j].depth
        /\ \A i \in 1..Len(results), j \in 1..Len(to_crawl) :
              results[i].depth <= to_crawl[j].depth

\* Witness of C26: after the seed and one of its links were crawled, a
\* link of the seed still waits in the queue in front of a link found one
\* level deeper.
C26_Witness ==
    /\ pc = "recursive" /\ Len(results) = 2
    /\ results[1].depth = 0 /\ results[2].depth = 1
    /\ \E i, j \in 1..Len(to_crawl) :
          i < j /\ to_crawl[i].depth = 1 /\ to_crawl[j].depth = 2

\* What every CrawlResult of a response is to satisfy.
ResultConsistent(r) ==
    /\ r.success => r.markdown # <<>>
    /\ ~r.success => r.error_message # <<>>
    /\ r.screenshot_base64 => r.screenshot_size # NoSize

\* C27: every CrawlResult handed on by the single-page executor, fresh or
\* a failure, and every result rebuilt from the cache has markdown when
\* success is true, an error_message when success is false, and a
\* screenshot_size when it has a screenshot.
C27_ResultConsistency ==
    /\ (ex_out.done /\ ~ex_out.raised) => ResultConsistent(ex_out.result)
    /\ \A i \in 1..Len(results) : ResultConsistent(results[i])

\* Witness of C27: a fresh result with a screenshot was stored and a result
\* was rebuilt from the cache at another depth.
C27_Witness ==
    /\ ex_out.done /\ ~ex_out.raised /\ ex_out.result.screenshot_base64
    /\ Len(results) = 1 /\ served = <<TRUE>>
    /\ results[1].screenshot_base64
    /\ results[1].depth # ex_out.result.depth

\* The CrawlingResponse of the call that returned.
Response == CreateFromResults(results, cached_count)

\* C28: every CrawlingResponse returned by crawl_urls has total_urls equal
\* to the number of its results, successful_crawls + failed_crawls equal to
\* total_urls, cached_results at most total_urls, and cached_results equal
\* to the number of results the call served from the cache.
C28_ResponseCounts ==
    pc = "done" =>
        /\ Response.total_urls = Len(Response.results)
        /\ Response.results = results
        /\ Response.successful_crawls + Response.failed_crawls = Response.total_urls
        /\ Response.successful_crawls
              = Cardinality({ i \in 1..Len(results) : results[i].success })
        /\ Response.cached_results <= Response.total_urls
        /\ Response.cached_results
              = Cardinality({ i \in 1..Len(served) : served[i] })

\* Witness of C28: a call returned a response holding a result served from
\* the cache, a fetched page and more than one result in all.
C28_Witness ==
    /\ pc = "done"
    /\ Response.total_urls >= 2
    /\ Response.cached_results >= 1
    /\ Response.cached_results < Response.total_urls
    /\ Response.successful_crawls >= 1

\* C29: URL normalization is idempotent: whatever the case of scheme and
\* host, the trailing slashes, the query and the fragment of a URL,
\* normalizing its normal form again returns the same string.
C29_Idempotent ==
    \A i \in 1..(Len(norm_out) - 1) :
        /\ norm_out[i + 1].url = norm_out[i].url
        /\ norm_out[i + 1].other = norm_out[i].other

\* C30: two URLs that differ only in the fragment, in one trailing slash of
\* a non-root path, in an empty versus root path or in the case of scheme
\* and host have the same normal form; two that differ in path case or in
\* the query keep distinct normal forms, and the query comes out as it
\* went in.
Merged == {"fragment", "trailing_slash", "root_path", "scheme_case", "host_case"}

C30_MergedOrDistinct ==
    norm_out # <<>> =>
        /\ norm_in.differ \in Merged => norm_out[1].url = norm_out[1].other
        /\ norm_in.differ \notin Merged => norm_out[1].url # norm_out[1].other
        /\ UrlParse(norm_out[1].url).query = UrlParse(norm_in.url).query
        /\ UrlParse(norm_out[1].other).query = UrlParse(norm_in.other).query

\* What size() returns on the store an operation was called on.
Size(store, crawl_store, geo_store) == IF store = "crawl" THEN Cardinality(DOMAIN crawl_store) ELSE Cardinality(DOMAIN geo_store["rest"])

\* C31: clear() on a cache store removes every entry and returns the number
\* of entries it removed; afterwards size() is 0, get returns absent for
\* every key, and on the crawling cache invalidate_url returns 0 for every
\* URL.
C31_Clear ==
    [][ op'.name = "clear" /\ op'.n = op.n + 1 =>
          /\ op'.count = Size(op'.store, cache, geo_cache)
          /\ Size(op'.store, cache', geo_cache') = 0
          /\ op'.store = "crawl" =>
                /\ \A url \in CacheUrls, options \in CacheOptions :
                      ~CacheGet(cache', url, options, now').found
                /\ \A url \in CacheUrls : CacheNormalizeUrl(url) \notin DOMAIN url_to_keys'
          /\ op'.store = "geo" =>
                \A city \in Cities : ~GeoCacheGet(geo_cache'["rest"], city, now').found
      ]_vars

\* The same for the crawling cache alone.
C31_CrawlClear ==
    [][ op'.name = "clear" /\ op'.n = op.n + 1 /\ op'.store = "crawl" =>
          /\ op'.count = Size("crawl", cache, geo_cache)
          /\ op'.count > 0 => cache # EmptyDict
          /\ Size("crawl", cache', geo_cache') = 0
          /\ \A url \in CacheUrls, options \in CacheOptions :
                ~CacheGet(cache', url, options, now').found
          /\ \A url \in CacheUrls : CacheNormalizeUrl(url) \notin DOMAIN url_to_keys'
      ]_vars

\* The entries of the store an operation was called on.
Entries(store, crawl_store, geo_store) == IF store = "crawl" THEN crawl_store ELSE geo_store["rest"]

\* The keys of the entries a get at time t treats as expired.
ExpiredForGet(store, entries, t) == { k \in DOMAIN entries : IF store = "crawl" THEN Expired(entries[k].timestamp, t) ELSE GeoExpired(entries[k].timestamp, t) }

\* C32: cleanup_expired() removes exactly the entries that a get would
\* treat as expired at that moment and returns their number; every other
\* entry stays, with its value and timestamp, and a get still returns it.
C32_CleanupExpired ==
    [][ op'.name = "cleanup_expired" /\ op'.n = op.n + 1 =>
          LET before == Entries(op'.store, cache, geo_cache)
              after == Entries(op'.store, cache', geo_cache')
              gone == ExpiredForGet(op'.store, before, now)
          IN  /\ DOMAIN after = DOMAIN before \ gone
              /\ op'.count = Cardinality(gone)
              /\ \A k \in DOMAIN after : after[k] = before[k]
              /\ op'.store = "crawl" =>
                    \A url \in CacheUrls, options \in CacheOptions :
                        GetKey(url, options) \in DOMAIN before \ gone =>
                            /\ CacheGet(after, url, options, now').found
                            /\ CacheGet(after, url, options, now').store = after
              /\ op'.store = "geo" =>
                    \A city \in Cities :
                        GeoGetKey(city) \in DOMAIN before \ gone =>
                            /\ GeoCacheGet(after, city, now').found
                            /\ GeoCacheGet(after, city, now').store = after
      ]_vars

\* Witness of C32: a cleanup_expired() of the crawling cache removed an
\* expired entry and left an unexpired one.
C32_Witness ==
    /\ op.name = "cleanup_expired" /\ op.store = "crawl"
    /\ op.count >= 1
    /\ cache # EmptyDict
    /\ \A k \in DOMAIN cache : ~Expired(cache[k].timestamp, now)

\* The upstream task of the executor run completed with a page that parses
\* to a success when its screenshot is left aside.
PageDelivered ==
    /\ ex_in.up.post = "ok" /\ ex_in.up.final = "completed" /\ ex_in.up.pending = 0
    /\ ~ex_in.up.payload.malformed /\ ex_in.up.payload.has_results
    /\ ex_in.up.payload.status_code = HttpOk
    /\ ex_in.up.payload.markdown # <<>>

\* C33: when capture_screenshots is set and the upstream result carries a
\* screenshot whose PNG header cannot be parsed (wrong signature or too
\* short), the page result is still a success and its screenshot_size is the
\* requested screenshot_width and screenshot_height.
C33_BadHeaderFallsBack ==
    /\ ex_out.done /\ PageDelivered
    /\ ex_in.request.capture_screenshots
    /\ ex_in.up.payload.screenshot \in {"bad_signature", "too_short"}
    => /\ ~ex_out.raised
       /\ ex_out.result.success
       /\ ex_out.result.screenshot_size
             = <<ex_in.request.screenshot_width, ex_in.request.screenshot_height>>

\* A request that follows internal links only and keeps within the limits
\* of its fields.
InternalWithinLimits(r) ==
    /\ r.follow_internal_links /\ r.scrape_internal_links
    /\ ~r.follow_external_links
    /\ r.max_depth \in 1..5 /\ r.max_pages \in 1..50
    /\ Len(r.urls) \in 1..3

\* C34: no accepted CrawlRequest follows external links with max_depth > 3
\* or max_pages > 20, while a request that follows internal links only is
\* accepted with max_depth up to 5 and max_pages up to 50; hence a recursive
\* crawl that follows external links returns at most 20 results, all at
\* depth <= 2.
C34_ExternalCaps ==
    /\ (val_out = "accepted" /\ val_in.follow_external_links) =>
          (val_in.max_depth <= 3 /\ val_in.max_pages <= 20)
    /\ (val_out # "none" /\ InternalWithinLimits(val_in)) => val_out = "accepted"
    /\ (pc # "idle" /\ request.follow_external_links) =>
          /\ request = val_in
          /\ Len(results) <= 20
          /\ \A i \in 1..Len(results) : results[i].depth <= 2

\* Witness of C34: a request following external links was accepted at the
\* limits (max_depth 3, max_pages 20) and its crawl returned a page at depth
\* 2; rejected with one more of either.
C34_Witness ==
    /\ val_out = "accepted" /\ val_in.follow_external_links
    /\ val_in.max_depth = 3 /\ val_in.max_pages = 20
    /\ pc = "done"
    /\ \E i \in 1..Len(results) : results[i].depth = 2

\* Witness of the second part of C34: a request following internal links
\* only was accepted with max_depth 5 and max_pages 50.
C34_InternalWitness ==
    /\ val_out = "accepted" /\ InternalWithinLimits(val_in)
    /\ val_in.max_depth = 5 /\ val_in.max_pages = 50
    /\ pc = "done"

\* What a get for the URL of the i-th result finds in the cache now.
EntryFor(i) == CacheGet(cache, attempted[i].url_str, RequestToOptions(request), now)

\* Every queued link was found on a page whose result is a success.
QueuedFromSuccesses ==
    \A q \in 1..Len(to_crawl) :
        to_crawl[q].depth > 0 =>
            \E j \in 1..Len(results) :
                /\ results[j].success
                /\ results[j].depth + 1 = to_crawl[q].depth
                /\ to_crawl[q].url_str \in LinkTargets(j)

Enqueued == SubSeq(to_crawl', Len(to_crawl), Len(to_crawl'))

\* C36: an enqueued external link carries its own scheme://host as origin
\* domain and an enqueued internal link the origin domain of the page it was
\* found on; the links of a page are filtered against the origin domain of
\* that page's frontier item, whatever the seeds of the call are.
C36_OriginDomain ==
    [][ (pc = "recursive" /\ to_crawl # <<>>
         /\ Len(results') = Len(results) + 1) =>
        LET item == Head(to_crawl)
            page == results'[Len(results')]
            internal == { UrlJoin(item.url_str, page.internal_links[k]) :
                            k \in 1..Len(page.internal_links) }
            external == { page.external_links[k] :
                            k \in 1..Len(page.external_links) }
            kept_internal ==
                { u \in internal :
                    /\ request.follow_internal_links
                    /\ NormalizeUrl(u) \notin crawled_urls'
                    /\ u.netloc = item.base_domain.netloc }
            kept_external ==
                { u \in external :
                    /\ request.follow_external_links
                    /\ NormalizeUrl(u) \notin crawled_urls'
                    /\ u.netloc # item.base_domain.netloc }
        IN /\ \A k \in 1..Len(Enqueued) :
                /\ Enqueued[k].depth = item.depth + 1
                /\ \/ /\ Enqueued[k].url_str \in kept_internal
                      /\ Enqueued[k].base_domain = item.base_domain
                   \/ /\ Enqueued[k].url_str \in kept_external
                      /\ Enqueued[k].base_domain = Domain(Enqueued[k].url_str)
           /\ (page.success /\ CanGoDeeper(item, request, Len(results'))) =>
                \A u \in kept_internal \cup kept_external :
                    \E k \in 1..Len(Enqueued) : Enqueued[k].url_str = u
    ]_vars

\* Witness of C36: the internal link of a page on another host than the
\* seeds waits in the queue with that page's origin domain, behind the
\* result of the external page it was found on.
C36_Witness ==
    /\ pc = "recursive"
    /\ request.follow_internal_links /\ request.follow_external_links
    /\ \E q \in 1..Len(to_crawl), i \in 1..Len(attempted) :
        /\ to_crawl[q].depth = attempted[i].depth + 1
        /\ attempted[i].depth >= 1
        /\ attempted[i].base_domain = Domain(attempted[i].url_str)
        /\ attempted[i].base_domain.netloc \notin SeedHosts
        /\ to_crawl[q].base_domain = attempted[i].base_domain
        /\ to_crawl[q].url_str.netloc = attempted[i].base_domain.netloc
        /\ to_crawl[q].url_str \in LinkTargets(i)

\* C37: the crawl cache's URL normalization agrees with the traversal's:
\* for fixed options two URLs get the same cache key, which is made of the
\* cache's normalized URL and the options, if and only if the traversal
\* normalizes them to the same URL; two URLs that differ in path case only
\* never share a key and a URL and its fragment variant always do.
C37_CacheAgreesWithTraversal ==
    norm_out # <<>> =>
        /\ (norm_out[1].cache_url = norm_out[1].cache_other)
              <=> (norm_out[1].url = norm_out[1].other)
        /\ norm_in.differ = "path_case" =>
              norm_out[1].cache_url # norm_out[1].cache_other
        /\ norm_in.differ = "fragment" =>
              norm_out[1].cache_url = norm_out[1].cache_other

\* The part of C37 on fragments alone.
C37_FragmentVariantShares ==
    (norm_out # <<>> /\ norm_in.differ = "fragment") =>
        norm_out[1].cache_url = norm_out[1].cache_other

\* The cache keys the reverse index url -> keys lists.
IndexedKeys == UNION { url_to_keys[u] : u \in DOMAIN url_to_keys }

\* C38: after any sequence of set, get, cleanup_expired, invalidate_url and
\* clear, the keys listed in the reverse index of the crawling cache are the
\* keys present in the cache, and no URL maps to an empty set of keys.
C38_ReverseIndexConsistent ==
    /\ IndexedKeys = DOMAIN cache
    /\ \A u \in DOMAIN url_to_keys : url_to_keys[u] # {}

\* The part of C38 that no get is involved in: every cached key is listed
\* under the URL it was stored for, and no URL maps to an empty set.
C38_CachedKeysIndexed ==
    /\ DOMAIN cache \subseteq IndexedKeys
    /\ \A u \in DOMAIN url_to_keys : url_to_keys[u] # {}

\* The modelled clock leaves room for the call in progress: a single-page
\* crawl returns within one rate-limiter window and one poll interval of
\* the one before, so max_pages of them take at most max_pages + 1 ticks.
WithinHorizon == started_at + request.max_pages + 1 <= MaxTime

\* C39: a recursive crawl terminates: on every link graph, cyclic ones
\* included, with whatever earlier calls left in the cache and whichever
\* pages succeed or fail, the loop of _crawl_recursive ends and the call
\* returns or raises, and it makes at most max_pages single-page crawls,
\* each of which acquires the rate limiter once.
C39_RecursiveCrawlTerminates ==
    /\ [](IsRecursive(request) => acquires <= request.max_pages)
    /\ (pc = "recursive" /\ WithinHorizon) ~> (pc \in {"done", "raised"})

\* Witness of C39: a recursive call on a warm cache has returned after a
\* result served from the cache, a failed page and a link back to a page
\* already visited.
C39_Witness ==
    /\ pc = "done" /\ IsRecursive(request) /\ WithinHorizon /\ nreq > 1
    /\ \E i \in 1..Len(results) : served[i]
    /\ \E i \in 1..Len(results) : ~results[i].success
    /\ \E i \in 1..Len(results) :
          \E u \in LinkTargets(i) :
              \E j \in 1..i : NormalizeUrl(u) = attempted[j].normalized_url

\* C40: under fair scheduling every acquire() call returns, whatever the
\* number of concurrent callers; the lock is held only by a task inside
\* acquire(), so every path out of it releases the lock; the first acquire()
\* on a fresh limiter returns without waiting; and a returning acquire()
\* leaves in last_request_time the time of its return.
C40_AcquireReturns ==
    /\ \A t \in Tasks : (rl_pc[t] # "idle") ~> (rl_pc[t] = "idle")
    /\ [](locked => \E t \in Tasks : rl_pc[t] = "sleeping")
    /\ [][ (last_request_time = None /\ calls' # calls) =>
              (/\ completions' = <<now>>
               /\ \A t \in Tasks : rl_pc'[t] = "idle") ]_vars
    /\ [][ Len(completions') = Len(completions) + 1 =>
              (/\ last_request_time' = now'
               /\ completions'[Len(completions')] = now') ]_vars

\* Witness of C40: every call the tasks may make has returned, one of them
\* after queueing for the lock behind a sleeping task and then sleeping
\* itself, so that it returned later than it was called.
C40_Witness ==
    /\ \A t \in Tasks : rl_pc[t] = "idle" /\ calls[t] = MaxCalls
    /\ Len(completions) = NumTasks * MaxCalls
    /\ ~locked /\ waiters = <<>>
    /\ last_request_time = completions[Len(completions)]
    /\ \A i \in 2..Len(completions) :
          completions[i] = completions[i - 1] + TimeWindow
====
